---- MODULE Spec2Model ----
(***************************************************************************)
(* Verification model of the two-tier markdown chunker                     *)
(* (packages/shared/rag_pipeline/rag/markdown_chunker.py) and of the       *)
(* hybrid retriever (packages/shared/rag_pipeline/rag/retriever.py) with   *)
(* its HTTP front end (api/main.py).                                       *)
(*                                                                         *)
(* Text is a sequence of one-character strings.  External services (the    *)
(* embedding API, the FAISS index, the rerank API) answer                  *)
(* nondeterministically within their interface.                            *)
(***************************************************************************)
EXTENDS Integers, Sequences, FiniteSets, TLC

VARIABLES
    \* --- retriever: configuration fixed at construction
    loaded,             \* api/main.py global `retriever` is not None
    reranker,           \* HybridRetriever.reranker is not None
    faiss_candidates,   \* HybridRetriever.faiss_candidates
    ntotal,             \* index.ntotal
    \* --- retriever: the call in progress
    pc,                 \* position of the call
    entry,              \* "api" (POST /search) or "direct" (HybridRetriever.search)
    query, top_k, use_reranker,
    hybridSearchCalls,  \* invocations of HybridRetriever.search in this call
    faissSearchCalls,   \* invocations of FAISSRetriever.search
    faissAskedN,        \* top_k argument given to FAISSRetriever.search
    embedAttempts,      \* embedding requests sent
    indexQueries,       \* index.search invocations
    indexAskedN,        \* k given to index.search
    rerankCalls,        \* rerank HTTP requests sent
    rerankAskedTopN,    \* "top_n" of the rerank request
    rerankOutcome,      \* how the rerank request ended
    candidates,         \* FAISS candidates
    results,            \* what the call returned
    error,              \* what the call raised
    httpStatus,         \* status of the HTTP response, for entry = "api"
    \* --- chunker
    cfg,                \* the MarkdownChunker's size and overlap attributes
    input,              \* the arguments of the operation under way
    cpc,                \* position of the operation
    sections,           \* what split_into_sections returned
    pieces,             \* what split_at_paragraph_boundary returned
    overlapped,         \* what add_overlap returned
    cleaned,            \* create_coarse_chunks' local cleaned_text
    coarse,             \* the coarse chunks of the last chunk_document
    fine,               \* the fine chunks of the last chunk_document
    remembered,         \* arguments and result of an earlier chunk_document
    \* --- batch chunking jobs
    job,                \* which job runs, its options and the selected paper ids
    bpc,                \* position of the job
    stats,              \* the job's stats dict
    attempted,          \* paper ids the loop has taken, in order
    faults,             \* what went wrong with each of them ("ok" when nothing)
    \* --- concurrent searches on one HybridRetriever
    calls,              \* the locals of each caller's HybridRetriever.search
    lastFound,          \* the list the latest FAISSRetriever.search returned
    \* --- get_worker_pdfs
    all_pdfs,           \* the sorted PDF keys given to get_worker_pdfs
    total_workers,      \* the number of parallel workers
    slices,             \* worker id -> what get_worker_pdfs returned for it
    \* --- list_pdfs_from_s3
    listing,            \* the pages S3 serves for the prefix, each a list of object keys
    lpc,                \* position of list_pdfs_from_s3: idle, listing or done
    pdf_keys,           \* list_pdfs_from_s3 local pdf_keys
    continuation_token, \* list_pdfs_from_s3 local continuation_token, 0 for None
    requests,           \* the ContinuationToken of every list_objects_v2 request, 0 for none
    listed,             \* the list list_pdfs_from_s3 returned
    \* --- DistributedWorker
    bucket,             \* PDF -> the outputs stored in S3 under processed/{pdf_id}/
    my_pdfs,            \* DistributedWorker.run local my_pdfs
    wpc,                \* position of the worker process: idle, loop or exited
    wpos,               \* position in my_pdfs of the next PDF of run's loop
    successful,         \* run local successful
    failed,             \* run local failed
    failures,           \* DistributedWorker.failures, the pdf_key of each record
    attempts,           \* the PDFs process_pdf was called with in this run, in order
    probes,             \* the head_object outcome and the answer of every s3_object_exists call of this run
    skipped,            \* the PDFs some process_pdf skipped as already processed
    completed,          \* the PDFs some process_pdf processed to the end
    reportUploaded,     \* whether the failure report of this run is in S3
    exitStatus,         \* exit status of the worker process, -1 while it runs
    runs,               \* number of worker runs started so far
    \* --- OpenAIEmbedder
    max_retries,        \* OpenAIEmbedder.max_retries, given at construction
    epc,                \* position of generate_embedding: idle or trying
    tries,              \* attempts of the embedding request made for the call under way
    embedResults,       \* for every finished generate_embedding call: attempts made, how it ended, which attempt's embedding it returned
    \* --- POST /chat
    chatReq,            \* the /chat request and the server configuration it meets
    chpc,               \* position of the chat handler: idle, retrieve, complete, fallback or done
    searchRuns,         \* retriever.search calls made for the request
    searchOutcome,      \* what retriever.search did: none yet, raised, or the number of results
    completions,        \* the LLM completion attempts of the request: model and whether it answered
    chatStatus,         \* HTTP status of the /chat response, none while the handler runs
    \* --- process_pdfs_batch main
    unprocessed,        \* the PDFs the batch pipeline has to process, as doc ids in list order
    dpos,               \* downloader: position in unprocessed of the next PDF
    dhold,              \* downloader: the item it is about to put, NoItem when none
    ddone,              \* downloader has returned
    download_queue,     \* queue.Queue(maxsize=2) from downloader to processor
    phold,              \* processor: the item it is about to put
    pdone,              \* processor has returned
    process_queue,      \* queue.Queue(maxsize=2) from processor to uploader
    udone,              \* uploader has returned
    outputDir,          \* the doc ids whose parse output files are in /tmp/output
    storedMd,           \* the doc ids with processed/{doc_id}/document.md in S3
    storedFigs,         \* <<d, o>>: a figure of document o is in S3 under processed/{d}/figures/
    uploaded,           \* the doc ids the uploader counted as uploaded, in order
    pfailed             \* the doc ids appended to the failed list, in order

retrConfig == <<loaded, reranker, faiss_candidates, ntotal>>
retrCall == <<pc, entry, query, top_k, use_reranker>>
retrCounters == <<hybridSearchCalls, faissSearchCalls, faissAskedN, embedAttempts,
                  indexQueries, indexAskedN, rerankCalls, rerankAskedTopN>>
retrOut == <<rerankOutcome, candidates, results, error, httpStatus>>
retrVars == <<retrConfig, retrCall, retrCounters, retrOut>>
chunkVars == <<cfg, input, cpc, sections, pieces, overlapped, cleaned, coarse, fine,
               remembered>>
batchVars == <<job, bpc, stats, attempted, faults>>
concVars == <<calls, lastFound>>
distVars == <<all_pdfs, total_workers, slices>>
listVars == <<listing, lpc, pdf_keys, continuation_token, requests, listed>>
workVars == <<bucket, my_pdfs, wpc, wpos, successful, failed, failures, attempts, probes, skipped, completed, reportUploaded, exitStatus, runs>>
embVars == <<max_retries, epc, tries, embedResults>>
chatVars == <<chatReq, chpc, searchRuns, searchOutcome, completions, chatStatus>>
pipeVars == <<unprocessed, dpos, dhold, ddone, download_queue, phold, pdone, process_queue, udone, outputDir, storedMd, storedFigs, uploaded, pfailed>>
ingestVars == <<distVars, listVars, workVars, embVars, chatVars, pipeVars>>
nonRetrVars == <<chunkVars, batchVars, concVars, ingestVars>>
nonChunkVars == <<retrVars, batchVars, concVars, ingestVars>>
nonBatchVars == <<retrVars, chunkVars, concVars, ingestVars>>
nonConcVars == <<chunkVars, batchVars, ingestVars>>
nonDistVars == <<retrVars, chunkVars, batchVars, concVars, listVars, workVars, embVars, chatVars, pipeVars>>
nonListVars == <<retrVars, chunkVars, batchVars, concVars, distVars, workVars, embVars, chatVars, pipeVars>>
nonWorkVars == <<retrVars, chunkVars, batchVars, concVars, distVars, listVars, embVars, chatVars, pipeVars>>
nonEmbVars == <<retrVars, chunkVars, batchVars, concVars, distVars, listVars, workVars, chatVars, pipeVars>>
nonChatVars == <<retrVars, chunkVars, batchVars, concVars, distVars, listVars, workVars, embVars, pipeVars>>
nonPipeVars == <<retrVars, chunkVars, batchVars, concVars, distVars, listVars, workVars, embVars, chatVars>>

\* ------------------------------------------------------------------------
\* Bounds of the model
\* ------------------------------------------------------------------------
MaxIndex == 3        \* largest number of vectors in the FAISS index
MaxTopK == 3         \* largest top_k a caller passes
MaxQueryLen == 2     \* longest query text
MaxLevel == 3        \* deepest heading of the sectioning inputs
MaxSectionLines == 5 \* most lines of a sectioning input
MaxParas == 4        \* most paragraphs of a boundary-chunker input
MaxDocLines == 5     \* most lines of a chunk_document input
MaxDetLines == 2     \* most lines of a document that is chunked repeatedly
MaxRawChunks == 3    \* most raw chunks given to add_overlap
MaxPapers == 3       \* most papers selected for a batch chunking job
MaxPdfs == 7         \* most PDF keys given to get_worker_pdfs
MaxWorkers == 4      \* most parallel workers
MaxListPages == 3    \* most pages of one S3 listing
MaxPageKeys == 2     \* most object keys on one page of a listing
MaxSlice == 2        \* most PDFs in the slice of one worker
MaxRuns == 2         \* most runs of the same worker over the same slice
MaxRetriesArg == 4   \* largest max_retries given to OpenAIEmbedder
MaxEmbedCalls == 2   \* most generate_embedding calls on one embedder
MaxSources == 2      \* most search results retrieved for a chat request
MaxDocs == 3         \* most unprocessed PDFs of one batch pipeline run

\* ------------------------------------------------------------------------
\* Program constants
\* ------------------------------------------------------------------------
DefaultFaissCandidates == 75
StopAfterAttempt == 3

\* ------------------------------------------------------------------------
\* Characters and generic helpers
\* ------------------------------------------------------------------------
SP == " "
NL == "\n"

IsSpace(c) == c \in {SP, NL}

Min(a, b) == IF a <= b THEN a ELSE b

\* s[:n] for n >= 0
Take(s, n) == SubSeq(s, 1, Min(n, Len(s)))

\* s[n:] for n >= 0 (drop the first n)
Drop(s, n) == SubSeq(s, n + 1, Len(s))

\* all sequences over S of length <= n
SeqsUpTo(S, n) == UNION {[1..k -> S] : k \in 0..n}

RECURSIVE LStrip(_)
LStrip(s) == IF s # <<>> /\ IsSpace(Head(s)) THEN LStrip(Tail(s)) ELSE s

RECURSIVE RStrip(_)
RStrip(s) ==
    IF s # <<>> /\ IsSpace(s[Len(s)]) THEN RStrip(SubSeq(s, 1, Len(s) - 1)) ELSE s

\* str.strip()
Strip(s) == RStrip(LStrip(s))

\* ------------------------------------------------------------------------
\* Text operations of the chunker (str and re, as the chunker uses them)
\* ------------------------------------------------------------------------
HASH == "#"
DASH == "-"
MaxHeadingLevel == 6

\* position of the first "\n" of s, 0 when there is none
FirstNL(s) ==
    IF \E i \in 1..Len(s) : s[i] = NL
    THEN CHOOSE i \in 1..Len(s) : s[i] = NL /\ \A j \in 1..(i - 1) : s[j] # NL
    ELSE 0

\* text.split('\n')
RECURSIVE SplitLines(_)
SplitLines(s) ==
    LET i == FirstNL(s) IN
    IF i = 0 THEN <<s>> ELSE <<SubSeq(s, 1, i - 1)>> \o SplitLines(Drop(s, i))

\* '\n'.join(lines)
RECURSIVE JoinLines(_)
JoinLines(ls) ==
    IF ls = <<>> THEN <<>>
    ELSE IF Len(ls) = 1 THEN ls[1]
    ELSE ls[1] \o <<NL>> \o JoinLines(Tail(ls))

\* length of the run of character c that starts s
RECURSIVE RunOf(_, _)
RunOf(s, c) == IF s # <<>> /\ Head(s) = c THEN 1 + RunOf(Tail(s), c) ELSE 0

\* re.match(r'^(#{1,6})\s+(.+)$', line): 1..6 hashes, whitespace, one more
\* character at least
HeadingMatch(line) ==
    LET h == RunOf(line, HASH)
        rest == Drop(line, h)
    IN h >= 1 /\ h <= MaxHeadingLevel /\ Len(rest) >= 2 /\ IsSpace(rest[1])

\* len(match.group(1))
HeadingLevel(line) == RunOf(line, HASH)

\* match.group(2).strip()
HeadingText(line) == Strip(Drop(line, RunOf(line, HASH)))

\* extract_hierarchy: (heading_text, level, line number) of every heading line
RECURSIVE HeadingsFrom(_, _)
HeadingsFrom(lines, i) ==
    IF i > Len(lines) THEN <<>>
    ELSE (IF HeadingMatch(lines[i])
          THEN <<[text |-> HeadingText(lines[i]),
                  level |-> HeadingLevel(lines[i]),
                  line |-> i - 1]>>
          ELSE <<>>)
         \o HeadingsFrom(lines, i + 1)

ExtractHierarchy(markdown_text) == HeadingsFrom(SplitLines(markdown_text), 1)

\* sum(len(line) + 1 for line in lines[:n])
RECURSIVE CharOffset(_, _)
CharOffset(lines, n) ==
    IF n = 0 THEN 0 ELSE CharOffset(lines, n - 1) + Len(lines[n]) + 1

\* the hierarchy stack after a heading: drop what is not above it, push it
UpdateStackKeepsEqualLevel(stack, text, level) ==
    LET Keep(h) == h.level <= level
    IN Append(SelectSeq(stack, Keep), [text |-> text, level |-> level])
UpdateStack(stack, text, level) ==
    LET Keep(h) == h.level < level
    IN Append(SelectSeq(stack, Keep), [text |-> text, level |-> level])

DocumentHierarchy == << <<"D", "o", "c", "u", "m", "e", "n", "t">> >>

\* split_into_sections, the loop over the headings
RECURSIVE SectionsFrom(_, _, _, _)
SectionsFrom(lines, headings, i, hierarchy_stack) ==
    IF i > Len(headings) THEN <<>>
    ELSE LET h == headings[i]
             stack == UpdateStack(hierarchy_stack, h.text, h.level)
             start_line == h.line
             end_line == IF i + 1 <= Len(headings) THEN headings[i + 1].line
                         ELSE Len(lines)
             section_text == JoinLines(SubSeq(lines, start_line + 1, end_line))
             char_start == CharOffset(lines, start_line)
         IN <<[heading_hierarchy |-> [k \in 1..Len(stack) |-> stack[k].text],
               text |-> section_text,
               char_start |-> char_start,
               char_end |-> char_start + Len(section_text)]>>
            \o SectionsFrom(lines, headings, i + 1, stack)

\* split_into_sections
SplitIntoSections(markdown_text) ==
    LET lines == SplitLines(markdown_text)
        headings == ExtractHierarchy(markdown_text)
    IN IF headings = <<>>
       THEN <<[heading_hierarchy |-> DocumentHierarchy,
               text |-> markdown_text,
               char_start |-> 0,
               char_end |-> Len(markdown_text)]>>
       ELSE SectionsFrom(lines, headings, 1, <<>>)

\* position of the first "\n\n" of s, 0 when there is none
FirstBlank(s) ==
    IF \E i \in 1..(Len(s) - 1) : s[i] = NL /\ s[i + 1] = NL
    THEN CHOOSE i \in 1..(Len(s) - 1) :
            /\ s[i] = NL /\ s[i + 1] = NL
            /\ \A j \in 1..(i - 1) : ~(s[j] = NL /\ s[j + 1] = NL)
    ELSE 0

\* re.split(r'\n\n+', text)
RECURSIVE SplitParagraphs(_)
SplitParagraphs(s) ==
    LET i == FirstBlank(s) IN
    IF i = 0 THEN <<s>>
    ELSE LET rest == Drop(s, i - 1)
         IN <<SubSeq(s, 1, i - 1)>> \o SplitParagraphs(Drop(rest, RunOf(rest, NL)))

\* `len(current_chunk) + len(para) + 2 > max_size`
ExceedsWithoutSeparator(current_chunk, para, max_size) ==
    Len(current_chunk) + Len(para) > max_size
Exceeds(current_chunk, para, max_size) ==
    Len(current_chunk) + Len(para) + 2 > max_size

\* the paragraph loop of split_at_paragraph_boundary and of create_fine_chunks
RECURSIVE PackParagraphs(_, _, _, _, _)
PackParagraphs(paragraphs, i, chunks, current_chunk, max_size) ==
    IF i > Len(paragraphs)
    THEN (IF current_chunk # <<>> THEN Append(chunks, Strip(current_chunk)) ELSE chunks)
    ELSE LET para == Strip(paragraphs[i]) IN
         IF para = <<>>
         THEN PackParagraphs(paragraphs, i + 1, chunks, current_chunk, max_size)
         ELSE IF current_chunk # <<>> /\ Exceeds(current_chunk, para, max_size)
         THEN PackParagraphs(paragraphs, i + 1, Append(chunks, Strip(current_chunk)),
                             para, max_size)
         ELSE PackParagraphs(paragraphs, i + 1, chunks,
                             IF current_chunk # <<>>
                             THEN current_chunk \o <<NL, NL>> \o para
                             ELSE para,
                             max_size)

\* split_at_paragraph_boundary
SplitAtParagraphBoundaryAtNewlines(text, max_size) ==
    IF Len(text) <= max_size THEN <<text>>
    ELSE PackParagraphs(SplitLines(text), 1, <<>>, <<>>, max_size)
SplitAtParagraphBoundary(text, max_size) ==
    IF Len(text) <= max_size THEN <<text>>
    ELSE PackParagraphs(SplitParagraphs(text), 1, <<>>, <<>>, max_size)

\* int(len(prev_chunk) * overlap_pct), overlap_pct given in percent
OverlapSize(n, overlap_pct) == (n * overlap_pct) \div 100

\* s[-n:] for n >= 0: the whole of s when n = 0 or n >= len(s)
Suffix(s, n) ==
    IF n = 0 \/ n >= Len(s) THEN s ELSE SubSeq(s, Len(s) - n + 1, Len(s))

\* add_overlap
AddOverlap(chunks, overlap_pct) ==
    IF Len(chunks) <= 1 THEN chunks
    ELSE [i \in 1..Len(chunks) |->
            IF i = 1 THEN chunks[1]
            ELSE LET prev_chunk == chunks[i - 1]
                     overlap_size == OverlapSize(Len(prev_chunk), overlap_pct)
                     overlap_text == LStrip(Suffix(prev_chunk, overlap_size))
                 IN overlap_text \o <<NL, NL>> \o chunks[i]]

\* re.sub(r'\n---+\n', '\n\n', text): matches are found left to right and do
\* not overlap
RECURSIVE SubRules(_)
SubRules(s) ==
    IF s = <<>> THEN <<>>
    ELSE LET d == RunOf(Tail(s), DASH) IN
         IF Head(s) = NL /\ d >= 3 /\ Len(s) >= d + 2 /\ s[d + 2] = NL
         THEN <<NL, NL>> \o SubRules(Drop(s, d + 2))
         ELSE <<Head(s)>> \o SubRules(Tail(s))

\* re.sub(r'\n{3,}', '\n\n', text)
RECURSIVE CollapseNewlines(_)
CollapseNewlines(s) ==
    IF s = <<>> THEN <<>>
    ELSE LET r == RunOf(s, NL) IN
         IF r >= 3 THEN <<NL, NL>> \o CollapseNewlines(Drop(s, r))
         ELSE IF r >= 1 THEN SubSeq(s, 1, r) \o CollapseNewlines(Drop(s, r))
         ELSE <<Head(s)>> \o CollapseNewlines(Tail(s))

\* create_coarse_chunks, "Clean markdown"
CleanMarkdown(markdown_text) == CollapseNewlines(SubRules(markdown_text))

\* `char_end=char_start + len(chunk_text)`
CharEndIsTextLength(char_start, chunk_text) == Len(chunk_text)
CharEnd(char_start, chunk_text) == char_start + Len(chunk_text)

\* f"{paper_id}_{chunk_type}_{i:04d}"
ChunkId(paper_id, chunk_type, i) == <<paper_id, chunk_type, i>>

\* create_coarse_chunks, "Process each section"
RECURSIVE RawChunks(_, _)
RawChunks(secs, i) ==
    IF i > Len(secs) THEN <<>>
    ELSE LET section_chunks ==
                 SplitAtParagraphBoundary(secs[i].text, cfg.coarse_max_size)
         IN [k \in 1..Len(section_chunks) |->
                [text |-> section_chunks[k],
                 hierarchy |-> secs[i].heading_hierarchy,
                 char_start |-> secs[i].char_start]]
            \o RawChunks(secs, i + 1)

\* create_coarse_chunks
CreateCoarseChunks(markdown_text, paper_id, paper_title) ==
    LET cleaned_text == CleanMarkdown(markdown_text)
        raw_chunks == RawChunks(SplitIntoSections(cleaned_text), 1)
        chunk_texts == [k \in 1..Len(raw_chunks) |-> raw_chunks[k].text]
        overlapped_texts == AddOverlap(chunk_texts, cfg.coarse_overlap_pct)
    IN [k \in 1..Len(overlapped_texts) |->
           [text |-> overlapped_texts[k],
            chunk_id |-> ChunkId(paper_id, "coarse", k - 1),
            chunk_type |-> "coarse",
            paper_id |-> paper_id,
            paper_title |-> paper_title,
            section_hierarchy |-> raw_chunks[k].hierarchy,
            char_start |-> raw_chunks[k].char_start,
            char_end |-> CharEnd(raw_chunks[k].char_start, overlapped_texts[k]),
            chunk_index |-> k - 1,
            total_chunks |-> Len(overlapped_texts),
            overlap_with_previous |-> (k - 1 > 0)]]

\* create_fine_chunks, `global_index = 0`
InitialGlobalIndexCarriedOver == IF remembered.set THEN Len(remembered.fine) ELSE 0
InitialGlobalIndex == 0

\* create_fine_chunks, `chunk_index=global_index` for piece i (0-based) of a
\* coarse chunk that starts at global_index
FineIndexResetPerCoarse(global_index, i) == i
FineIndex(global_index, i) == global_index + i

\* create_fine_chunks, "Split by paragraphs": the paragraph loop run on the
\* text of one coarse chunk, with no shortcut for a short text
FinePiecesSplitAtNewlines(text) ==
    PackParagraphs(SplitLines(text), 1, <<>>, <<>>, cfg.fine_max_size)
FinePieces(text) ==
    PackParagraphs(SplitParagraphs(text), 1, <<>>, <<>>, cfg.fine_max_size)

\* create_fine_chunks, `char_start=coarse_chunk.char_start`
FineCharStartFromZero(coarse_chunk) == 0
FineCharStart(coarse_chunk) == coarse_chunk.char_start

\* create_fine_chunks, the loop over the coarse chunks
RECURSIVE FineChunksFrom(_, _, _, _)
FineChunksFrom(coarse_chunks, j, fine_chunks, global_index) ==
    IF j > Len(coarse_chunks) THEN fine_chunks
    ELSE LET coarse_chunk == coarse_chunks[j]
             chunk_texts == FinePieces(coarse_chunk.text)
             overlapped_texts == AddOverlap(chunk_texts, cfg.fine_overlap_pct)
             made == [i \in 1..Len(overlapped_texts) |->
                        [text |-> overlapped_texts[i],
                         chunk_id |-> ChunkId(coarse_chunk.paper_id, "fine",
                                              FineIndex(global_index, i - 1)),
                         chunk_type |-> "fine",
                         paper_id |-> coarse_chunk.paper_id,
                         paper_title |-> coarse_chunk.paper_title,
                         section_hierarchy |-> coarse_chunk.section_hierarchy,
                         char_start |-> FineCharStart(coarse_chunk),
                         char_end |-> CharEnd(coarse_chunk.char_start,
                                              overlapped_texts[i]),
                         chunk_index |-> FineIndex(global_index, i - 1),
                         total_chunks |-> 0,
                         overlap_with_previous |-> (i - 1 > 0)]]
         IN FineChunksFrom(coarse_chunks, j + 1, fine_chunks \o made,
                           global_index + Len(overlapped_texts))

\* create_fine_chunks
CreateFineChunks(coarse_chunks) ==
    LET fine_chunks == FineChunksFrom(coarse_chunks, 1, <<>>, InitialGlobalIndex)
        total == Len(fine_chunks)
    IN [k \in 1..Len(fine_chunks) |-> [fine_chunks[k] EXCEPT !.total_chunks = total]]

\* ------------------------------------------------------------------------
\* Chunker: inputs and operations
\* ------------------------------------------------------------------------
Rep(c, n) == [i \in 1..n |-> c]
Letters == <<"A", "B", "C", "D", "E", "F", "G", "H">>
ParaLetters == <<"a", "b", "c", "d", "e", "f", "g", "h">>

\* MarkdownChunker.__init__ defaults (overlaps in percent)
DefaultConfig ==
    [coarse_max_size |-> 2500, fine_max_size |-> 450,
     coarse_overlap_pct |-> 10, fine_overlap_pct |-> 20]

\* configurations small enough for the inputs below to be split
SmallConfigs ==
    {[DefaultConfig EXCEPT !.coarse_max_size = 5, !.fine_max_size = 3],
     [coarse_max_size |-> 5, fine_max_size |-> 3,
      coarse_overlap_pct |-> 50, fine_overlap_pct |-> 50]}

NoConfig == [coarse_max_size |-> 0]
NoInput == [text |-> <<>>]
NoRun == [set |-> FALSE]

ChunkParked ==
    /\ cfg = NoConfig
    /\ input = NoInput
    /\ cpc = "parked"
    /\ sections = <<>>
    /\ pieces = <<>>
    /\ overlapped = <<>>
    /\ cleaned = <<>>
    /\ coarse = <<>>
    /\ fine = <<>>
    /\ remembered = NoRun

\* --- split_into_sections on documents made of heading lines and body lines
SectionLine(kind, i) ==
    IF kind = 0 THEN <<"x">> ELSE Rep(HASH, kind) \o <<SP, Letters[i]>>

SectionDocs ==
    {JoinLines([i \in 1..Len(ks) |-> SectionLine(ks[i], i)]) :
        ks \in SeqsUpTo(0..MaxLevel, MaxSectionLines)}

DoSplitIntoSections ==
    /\ cpc = "start"
    /\ sections' = SplitIntoSections(input.text)
    /\ cpc' = "done"
    /\ UNCHANGED <<cfg, input, pieces, coarse, fine, remembered, overlapped, cleaned,
                   nonChunkVars>>

SectionsInit ==
    /\ cfg = NoConfig
    /\ input \in {[text |-> d] : d \in SectionDocs}
    /\ cpc = "start"
    /\ sections = <<>>
    /\ pieces = <<>>
    /\ overlapped = <<>>
    /\ cleaned = <<>>
    /\ coarse = <<>>
    /\ fine = <<>>
    /\ remembered = NoRun

\* --- split_at_paragraph_boundary on texts made of paragraphs
ParaKinds == 1..6
ParaText(kind, i) ==
    CASE kind = 1 -> Rep(ParaLetters[i], 1)
      [] kind = 2 -> Rep(ParaLetters[i], 2)
      [] kind = 3 -> Rep(ParaLetters[i], 40)
      [] kind = 4 -> <<SP>>
      [] kind = 5 -> <<ParaLetters[i], NL, ParaLetters[i]>>
      [] kind = 6 -> <<SP, ParaLetters[i]>>

RECURSIVE JoinWith(_, _)
JoinWith(ps, sep) ==
    IF ps = <<>> THEN <<>>
    ELSE IF Len(ps) = 1 THEN ps[1]
    ELSE ps[1] \o sep \o JoinWith(Tail(ps), sep)

BoundaryTexts ==
    {JoinWith([i \in 1..Len(ks) |-> ParaText(ks[i], i)], sep) :
        ks \in SeqsUpTo(ParaKinds, MaxParas), sep \in {<<NL, NL>>, <<NL, NL, NL>>}}

MaxSizes == {2, 3, 5, 85}

DoSplitAtParagraphBoundary ==
    /\ cpc = "start"
    /\ pieces' = SplitAtParagraphBoundary(input.text, input.max_size)
    /\ cpc' = "done"
    /\ UNCHANGED <<cfg, input, sections, coarse, fine, remembered, overlapped, cleaned,
                   nonChunkVars>>

BoundaryInit ==
    /\ cfg = NoConfig
    /\ input \in {[text |-> t, max_size |-> m] : t \in BoundaryTexts, m \in MaxSizes}
    /\ cpc = "start"
    /\ sections = <<>>
    /\ pieces = <<>>
    /\ overlapped = <<>>
    /\ cleaned = <<>>
    /\ coarse = <<>>
    /\ fine = <<>>
    /\ remembered = NoRun

\* --- add_overlap on lists of raw chunks
RawChunkTexts ==
    {<<"a">>, <<"x", "y">>,
     <<"a", "b", "c", "d", "e", SP, "f", "g", "h", "i">>}

\* overlap fractions in percent
OverlapPcts == {0, 10, 20, 50, 100}

DoAddOverlap ==
    /\ cpc = "start"
    /\ overlapped' = AddOverlap(input.chunks, input.overlap_pct)
    /\ cpc' = "done"
    /\ UNCHANGED <<cfg, input, sections, pieces, cleaned, coarse, fine, remembered,
                   nonChunkVars>>

OverlapInit ==
    /\ cfg = NoConfig
    /\ input \in {[chunks |-> cs, overlap_pct |-> p] :
                     cs \in SeqsUpTo(RawChunkTexts, MaxRawChunks), p \in OverlapPcts}
    /\ cpc = "start"
    /\ sections = <<>>
    /\ pieces = <<>>
    /\ overlapped = <<>>
    /\ cleaned = <<>>
    /\ coarse = <<>>
    /\ fine = <<>>
    /\ remembered = NoRun

\* --- chunk_document on documents made of lines
DocLineKinds == 0..5
DocLine(kind, i) ==
    CASE kind = 0 -> <<>>
      [] kind = 1 -> <<HASH, SP, Letters[i]>>
      [] kind = 2 -> <<HASH, HASH, SP, Letters[i]>>
      [] kind = 3 -> <<"a", "a">>
      [] kind = 4 -> <<"b">>
      [] kind = 5 -> <<DASH, DASH, DASH>>

DocsOf(kinds, n) ==
    {JoinLines([i \in 1..Len(ks) |-> DocLine(ks[i], i)]) : ks \in SeqsUpTo(kinds, n)}

Docs == DocsOf(DocLineKinds, MaxDocLines)

\* chunk_document, first call
DoCreateCoarseChunks ==
    /\ cpc = "start"
    /\ cleaned' = CleanMarkdown(input.text)
    /\ coarse' = CreateCoarseChunks(input.text, input.paper_id, input.paper_title)
    /\ cpc' = "coarse_done"
    /\ UNCHANGED <<cfg, input, sections, pieces, fine, remembered, overlapped,
                   nonChunkVars>>

\* chunk_document, `if create_both_types`
DoCreateFineChunks ==
    /\ cpc = "coarse_done"
    /\ input.create_both_types
    /\ fine' = CreateFineChunks(coarse)
    /\ cpc' = "done"
    /\ UNCHANGED <<cfg, input, sections, pieces, coarse, remembered, overlapped, cleaned,
                   nonChunkVars>>

\* chunk_document, `else: fine_chunks = []`
SkipFineChunks ==
    /\ cpc = "coarse_done"
    /\ ~input.create_both_types
    /\ fine' = <<>>
    /\ cpc' = "done"
    /\ UNCHANGED <<cfg, input, sections, pieces, coarse, remembered, overlapped, cleaned,
                   nonChunkVars>>

ChunkInit ==
    /\ cfg \in SmallConfigs \cup {DefaultConfig}
    /\ input \in {[text |-> d, paper_id |-> "p1", paper_title |-> "t1",
                   create_both_types |-> b] : d \in Docs, b \in BOOLEAN}
    /\ cpc = "start"
    /\ sections = <<>>
    /\ pieces = <<>>
    /\ overlapped = <<>>
    /\ cleaned = <<>>
    /\ coarse = <<>>
    /\ fine = <<>>
    /\ remembered = NoRun

\* --- one chunker instance chunking document after document
DetInputs ==
    {[text |-> d, paper_id |-> p.id, paper_title |-> p.title] :
        d \in DocsOf({0, 1, 3}, MaxDetLines),
        p \in {[id |-> "p1", title |-> "t1"], [id |-> "p2", title |-> "t2"]}}

\* chunk_document(markdown_text, paper_id, paper_title); `remembered.other`
\* notes that a document other than the remembered one has been chunked since
ChunkDocument ==
    /\ cpc = "start"
    /\ LET coarse_chunks ==
               CreateCoarseChunks(input.text, input.paper_id, input.paper_title)
       IN /\ coarse' = coarse_chunks
          /\ fine' = CreateFineChunks(coarse_chunks)
    /\ cpc' = "done"
    /\ remembered' = IF remembered.set /\ remembered.input # input
                     THEN [remembered EXCEPT !.other = TRUE]
                     ELSE remembered
    /\ UNCHANGED <<cfg, input, sections, pieces, overlapped, cleaned,
                   nonChunkVars>>

\* the caller keeps the arguments and the result of one call
Remember ==
    /\ cpc = "done"
    /\ ~remembered.set
    /\ remembered' = [set |-> TRUE, input |-> input, coarse |-> coarse,
                      fine |-> fine, other |-> FALSE]
    /\ UNCHANGED <<cfg, input, cpc, sections, pieces, coarse, fine, overlapped, cleaned,
                   nonChunkVars>>

\* the call has returned; the same instance is given the next document
NextDocument(i) ==
    /\ cpc = "done"
    /\ input' = i
    /\ cpc' = "start"
    /\ coarse' = <<>>
    /\ fine' = <<>>
    /\ UNCHANGED <<cfg, sections, pieces, remembered, overlapped, cleaned,
                   nonChunkVars>>

DetInit ==
    /\ cfg \in SmallConfigs
    /\ input \in DetInputs
    /\ cpc = "start"
    /\ sections = <<>>
    /\ pieces = <<>>
    /\ overlapped = <<>>
    /\ cleaned = <<>>
    /\ coarse = <<>>
    /\ fine = <<>>
    /\ remembered = NoRun

\* ------------------------------------------------------------------------
\* Retriever: FAISSRetriever, ZeroEntropyReranker, HybridRetriever, POST /search
\* ------------------------------------------------------------------------

QueryChars == {SP, "q"}
Queries == SeqsUpTo(QueryChars, MaxQueryLen)
TopKs == 0..MaxTopK
CandidateCounts == {1, 2, DefaultFaissCandidates}

\* `if not request.query.strip()`
QueryIsEmptyNoStrip(q) == q = <<>>
QueryIsEmpty(q) == Strip(q) = <<>>

\* the candidate count HybridRetriever.search passes to FAISSRetriever.search
CandidateCountIsTopK == top_k
CandidateCount == faiss_candidates

\* `if use_reranker and self.reranker`
UseRerankerIgnoresConfig(u) == u
UseReranker(u) == u /\ reranker

\* index positions 0..n-1 in a similarity order (a rotation, chosen by the index)
SimilarityOrder(n, r) == [i \in 1..n |-> (i - 1 + r) % n]

\* index.search(query_vector, k): k positions, best first, padded with -1
FaissIndices(order, k) == [i \in 1..k |-> IF i <= Len(order) THEN order[i] ELSE -1]

\* distances[0][i]: inner products, best first
SimilarityAt(i) == 100 - i

\* FAISSRetriever.search, the loop that builds the results (stops at idx == -1);
\* `meta` stands for the fields copied from metadata[str(idx)]
RECURSIVE BuildResults(_, _)
BuildResults(indices, i) ==
    IF i > Len(indices) \/ indices[i] = -1
    THEN <<>>
    ELSE <<[meta |-> indices[i], score |-> SimilarityAt(i), rank |-> i - 1]>>
         \o BuildResults(indices, i + 1)

\* the bodies a successful rerank response can carry: at most top_n distinct
\* 0-based indices into the documents sent
RerankItems(nDocs, topN) ==
    {s \in SeqsUpTo(0..(nDocs - 1), Min(topN, nDocs)) :
        \A i, j \in 1..Len(s) : i # j => s[i] # s[j]}

RelevanceAt(r) == 1000 - r

\* the rank given to a reranked result
RerankedRankKeepsOriginal(r, original) == original.rank
RerankedRank(r, original) == r - 1

\* ZeroEntropyReranker.rerank, the loop over reranked_data["results"]
RerankedResults(cands, items, scored) ==
    [r \in 1..Len(items) |->
        LET original == cands[items[r] + 1] IN
        [meta |-> original.meta,
         score |-> IF scored THEN RelevanceAt(r) ELSE original.score,
         rank |-> RerankedRank(r, original)]]

RetrInit ==
    /\ loaded \in BOOLEAN
    /\ reranker \in BOOLEAN
    /\ faiss_candidates \in CandidateCounts
    /\ ntotal \in 0..MaxIndex
    /\ pc = "idle"
    /\ entry = "none"
    /\ query = <<>>
    /\ top_k = 0
    /\ use_reranker = FALSE
    /\ hybridSearchCalls = 0
    /\ faissSearchCalls = 0
    /\ faissAskedN = 0
    /\ embedAttempts = 0
    /\ indexQueries = 0
    /\ indexAskedN = 0
    /\ rerankCalls = 0
    /\ rerankAskedTopN = 0
    /\ rerankOutcome = "none"
    /\ candidates = <<>>
    /\ results = <<>>
    /\ error = "none"
    /\ httpStatus = "none"

\* HybridRetriever.search up to the embedding request of FAISSRetriever.search
EnterHybridSearch ==
    /\ hybridSearchCalls' = hybridSearchCalls + 1
    /\ faissSearchCalls' = faissSearchCalls + 1
    /\ faissAskedN' = CandidateCount
    /\ pc' = "embedding"

\* POST /search
ApiSearch(q, k, u) ==
    /\ pc = "idle"
    /\ entry' = "api"
    /\ query' = q
    /\ top_k' = k
    /\ use_reranker' = u
    /\ IF ~loaded
       THEN /\ pc' = "error"
            /\ error' = "not_loaded"
            /\ httpStatus' = "503"
            /\ UNCHANGED <<hybridSearchCalls, faissSearchCalls, faissAskedN>>
       ELSE IF QueryIsEmpty(q)
       THEN /\ pc' = "error"
            /\ error' = "validation"
            /\ httpStatus' = "400"
            /\ UNCHANGED <<hybridSearchCalls, faissSearchCalls, faissAskedN>>
       ELSE /\ EnterHybridSearch
            /\ UNCHANGED <<error, httpStatus>>
    /\ UNCHANGED <<nonRetrVars, retrConfig, embedAttempts, indexQueries, indexAskedN, rerankCalls,
                   rerankAskedTopN, rerankOutcome, candidates, results>>

\* HybridRetriever.search called by a script or by search_with_context
DirectSearch(q, k, u) ==
    /\ pc = "idle"
    /\ loaded
    /\ entry' = "direct"
    /\ query' = q
    /\ top_k' = k
    /\ use_reranker' = u
    /\ EnterHybridSearch
    /\ UNCHANGED <<nonRetrVars, retrConfig, embedAttempts, indexQueries, indexAskedN, rerankCalls,
                   rerankAskedTopN, retrOut>>

\* how an exception leaves the call
Raise(kind) ==
    /\ pc' = "error"
    /\ error' = kind
    /\ httpStatus' = IF entry = "api" THEN "unhandled" ELSE httpStatus

\* how a result leaves the call
Return(res) ==
    /\ pc' = "done"
    /\ results' = res
    /\ httpStatus' = IF entry = "api" THEN "200" ELSE httpStatus

\* one embedding request of generate_embedding under @retry(stop_after_attempt(3))
EmbedAttempt(ok) ==
    /\ pc = "embedding"
    /\ embedAttempts' = embedAttempts + 1
    /\ IF ok
       THEN /\ pc' = "vector_search"
            /\ UNCHANGED <<error, httpStatus>>
       ELSE IF embedAttempts + 1 >= StopAfterAttempt
       THEN Raise("embedding")
       ELSE UNCHANGED <<pc, error, httpStatus>>
    /\ UNCHANGED <<nonRetrVars, retrConfig, entry, query, top_k, use_reranker, hybridSearchCalls,
                   faissSearchCalls, faissAskedN, indexQueries, indexAskedN, rerankCalls,
                   rerankAskedTopN, rerankOutcome, candidates, results>>

\* index.search and the rest of FAISSRetriever.search, then step 2 of
\* HybridRetriever.search up to the rerank request
IndexSearch(ok, r) ==
    /\ pc = "vector_search"
    /\ indexQueries' = indexQueries + 1
    /\ indexAskedN' = faissAskedN
    /\ IF ~ok
       THEN /\ Raise("vector_index")
            /\ UNCHANGED <<candidates, results>>
       ELSE LET found == BuildResults(
                            FaissIndices(Take(SimilarityOrder(ntotal, r), faissAskedN),
                                         faissAskedN), 1)
            IN /\ candidates' = found
               /\ IF UseReranker(use_reranker)
                  THEN IF found = <<>>
                       THEN /\ Return(<<>>)
                            /\ UNCHANGED error
                       ELSE /\ pc' = "reranking"
                            /\ UNCHANGED <<results, error, httpStatus>>
                  ELSE /\ Return(Take(found, top_k))
                       /\ UNCHANGED error
    /\ UNCHANGED <<nonRetrVars, retrConfig, entry, query, top_k, use_reranker, hybridSearchCalls,
                   faissSearchCalls, faissAskedN, embedAttempts, rerankCalls,
                   rerankAskedTopN, rerankOutcome>>

\* requests.post of ZeroEntropyReranker.rerank and what follows it
Rerank(kind, items, scored) ==
    /\ pc = "reranking"
    /\ rerankCalls' = rerankCalls + 1
    /\ rerankAskedTopN' = Min(top_k, Len(candidates))
    /\ rerankOutcome' = kind
    /\ CASE kind = "transport_error" ->
              /\ Raise("rerank")
              /\ UNCHANGED results
         [] kind = "http_error" ->
              /\ Return(Take(candidates, top_k))
              /\ UNCHANGED error
         [] kind = "bad_body" ->
              /\ Raise("rerank")
              /\ UNCHANGED results
         [] kind = "ok" ->
              /\ Return(RerankedResults(candidates, items, scored))
              /\ UNCHANGED error
    /\ UNCHANGED <<nonRetrVars, retrConfig, entry, query, top_k, use_reranker, hybridSearchCalls,
                   faissSearchCalls, faissAskedN, embedAttempts, indexQueries,
                   indexAskedN, candidates>>

\* the call is over; the next one starts from scratch
Finish ==
    /\ pc \in {"done", "error"}
    /\ pc' = "idle"
    /\ entry' = "none"
    /\ query' = <<>>
    /\ top_k' = 0
    /\ use_reranker' = FALSE
    /\ hybridSearchCalls' = 0
    /\ faissSearchCalls' = 0
    /\ faissAskedN' = 0
    /\ embedAttempts' = 0
    /\ indexQueries' = 0
    /\ indexAskedN' = 0
    /\ rerankCalls' = 0
    /\ rerankAskedTopN' = 0
    /\ rerankOutcome' = "none"
    /\ candidates' = <<>>
    /\ results' = <<>>
    /\ error' = "none"
    /\ httpStatus' = "none"
    /\ UNCHANGED <<nonRetrVars, retrConfig>>

RetrNext ==
    \/ \E q \in Queries, k \in TopKs, u \in BOOLEAN : ApiSearch(q, k, u)
    \/ \E q \in Queries, k \in TopKs, u \in BOOLEAN : DirectSearch(q, k, u)
    \/ \E ok \in BOOLEAN : EmbedAttempt(ok)
    \/ \E ok \in BOOLEAN, r \in 0..MaxIndex : IndexSearch(ok, r)
    \/ \E items \in RerankItems(Len(candidates), Min(top_k, Len(candidates))),
          scored \in BOOLEAN : Rerank("ok", items, scored)
    \/ \E kind \in {"transport_error", "http_error", "bad_body"} :
          Rerank(kind, <<>>, FALSE)
    \/ Finish

\* ------------------------------------------------------------------------
\* Batch chunking jobs: worker/batch_chunk_markdown.py chunk_all_papers and
\* scripts/chunk_all_documents.py main / process_paper
\* ------------------------------------------------------------------------
PaperIds(n) == [i \in 1..n |-> i]

\* the selected paper_ids and the options that decide how a paper is saved
Jobs ==
    {[script |-> "batch_chunk_markdown", save_to_s3 |-> b, paper_ids |-> PaperIds(n)] :
        b \in BOOLEAN, n \in 0..MaxPapers}
    \cup {[script |-> "chunk_all_documents", save_to_s3 |-> TRUE,
           paper_ids |-> PaperIds(n)] : n \in 0..MaxPapers}

\* what can happen to one paper: load_paper returns None, chunk_document (or
\* the title extraction) raises, writing the chunks fails, or nothing fails
Outcomes == {"ok", "load_failed", "chunk_raised", "save_failed"}

NoJob == [script |-> "none"]
NoStats == [processed |-> 0]

BatchParked ==
    /\ job = NoJob
    /\ bpc = "parked"
    /\ stats = NoStats
    /\ attempted = <<>>
    /\ faults = <<>>

\* chunk_all_papers, `stats = {...}`
PapersStats == [processed |-> 0, failed |-> 0, errors |-> <<>>]

\* main of chunk_all_documents, `stats = {...}`
DocumentsStats == [processed |-> 0, failed |-> 0, failed_papers |-> <<>>]

BatchInit ==
    /\ job \in Jobs
    /\ bpc = "running"
    /\ stats = IF job.script = "batch_chunk_markdown" THEN PapersStats
               ELSE DocumentsStats
    /\ attempted = <<>>
    /\ faults = <<>>

\* whether a failed write reaches the caller of the save: save_chunks_to_s3
\* catches every exception and prints it, the local json.dump does not
SaveFailureRaises == ~job.save_to_s3

\* chunk_all_papers, `stats['failed'] += 1; stats['errors'].append(...)`
RecordFailure(paper_id, message) ==
    [stats EXCEPT !.failed = @ + 1,
                  !.errors = Append(@, [paper_id |-> paper_id, error |-> message])]

\* chunk_all_papers, one turn of `for paper_id in tqdm(paper_ids, ...)`
ChunkAllPapersStep(outcome) ==
    /\ bpc = "running"
    /\ job.script = "batch_chunk_markdown"
    /\ Len(attempted) < Len(job.paper_ids)
    /\ LET paper_id == job.paper_ids[Len(attempted) + 1] IN
       /\ attempted' = Append(attempted, paper_id)
       /\ faults' = Append(faults, outcome)
       /\ stats' =
             CASE outcome = "load_failed" -> RecordFailure(paper_id, "Failed to load")
               [] outcome = "chunk_raised" -> RecordFailure(paper_id, "str(e)")
               [] outcome = "save_failed" ->
                     IF SaveFailureRaises THEN RecordFailure(paper_id, "str(e)")
                     ELSE [stats EXCEPT !.processed = @ + 1]
               [] outcome = "ok" -> [stats EXCEPT !.processed = @ + 1]
    /\ UNCHANGED <<job, bpc, nonBatchVars>>

\* process_paper: a dict when everything worked, None otherwise
ProcessPaper(outcome) == IF outcome = "ok" THEN "dict" ELSE "None"

\* main of chunk_all_documents, one turn of `for paper_id in tqdm(paper_ids, ...)`
ChunkAllDocumentsStep(outcome) ==
    /\ bpc = "running"
    /\ job.script = "chunk_all_documents"
    /\ Len(attempted) < Len(job.paper_ids)
    /\ LET paper_id == job.paper_ids[Len(attempted) + 1]
           result == ProcessPaper(outcome) IN
       /\ attempted' = Append(attempted, paper_id)
       /\ faults' = Append(faults, outcome)
       /\ stats' = IF result # "None"
                   THEN [stats EXCEPT !.processed = @ + 1]
                   ELSE [stats EXCEPT !.failed = @ + 1,
                                      !.failed_papers = Append(@, paper_id)]
    /\ UNCHANGED <<job, bpc, nonBatchVars>>

\* the loop is over: the summary is printed
BatchSummary ==
    /\ bpc = "running"
    /\ Len(attempted) = Len(job.paper_ids)
    /\ bpc' = "done"
    /\ UNCHANGED <<job, stats, attempted, faults, nonBatchVars>>

BatchNext ==
    \/ \E outcome \in Outcomes : ChunkAllPapersStep(outcome)
    \/ \E outcome \in Outcomes : ChunkAllDocumentsStep(outcome)
    \/ BatchSummary

\* ------------------------------------------------------------------------
\* Concurrent searches: several callers inside HybridRetriever.search of one
\* retriever; retrConfig is the retriever they share
\* ------------------------------------------------------------------------
ConcParked ==
    /\ calls = <<>>
    /\ lastFound = <<>>

Clients == {"c1", "c2"}
ConcTopKs == {1, 2}
ConcRotations == {0, 1}
NoAnswer == [kind |-> "none", items |-> <<>>, scored |-> FALSE]

\* the locals of a call that has not started
IdleCall ==
    [pc |-> "idle", query |-> <<>>, top_k |-> 0, use_reranker |-> FALSE,
     rotation |-> 0, answer |-> NoAnswer, candidates |-> <<>>, results |-> <<>>,
     error |-> "none"]

ConcInit ==
    /\ loaded = TRUE
    /\ reranker \in BOOLEAN
    /\ faiss_candidates \in {2, DefaultFaissCandidates}
    /\ ntotal \in 0..MaxIndex
    /\ pc = "idle"
    /\ entry = "none"
    /\ query = <<>>
    /\ top_k = 0
    /\ use_reranker = FALSE
    /\ hybridSearchCalls = 0
    /\ faissSearchCalls = 0
    /\ faissAskedN = 0
    /\ embedAttempts = 0
    /\ indexQueries = 0
    /\ indexAskedN = 0
    /\ rerankCalls = 0
    /\ rerankAskedTopN = 0
    /\ rerankOutcome = "none"
    /\ candidates = <<>>
    /\ results = <<>>
    /\ error = "none"
    /\ httpStatus = "none"
    /\ calls = [c \in Clients |-> IdleCall]
    /\ lastFound = <<>>

\* HybridRetriever.search, the local `candidates` of caller c
CandidatesOnRetriever(c) == lastFound
Candidates(c) == calls[c].candidates

\* FAISSRetriever.search for rotation r of the index
Found(r) ==
    BuildResults(FaissIndices(Take(SimilarityOrder(ntotal, r), CandidateCount),
                              CandidateCount), 1)

\* caller c enters HybridRetriever.search(q, k, u)
ConcStart(c, q, k, u) ==
    /\ calls[c].pc = "idle"
    /\ calls' = [calls EXCEPT ![c] = [@ EXCEPT !.pc = "embedding", !.query = q,
                                               !.top_k = k, !.use_reranker = u]]
    /\ UNCHANGED <<lastFound, retrVars, nonConcVars>>

\* generate_embedding for caller c returns, or raises after its retries
ConcEmbed(c, ok) ==
    /\ calls[c].pc = "embedding"
    /\ calls' = [calls EXCEPT ![c] =
                    IF ok THEN [@ EXCEPT !.pc = "vector_search"]
                    ELSE [@ EXCEPT !.pc = "error", !.error = "embedding"]]
    /\ UNCHANGED <<lastFound, retrVars, nonConcVars>>

\* index.search and the rest of FAISSRetriever.search for caller c, then
\* step 2 of HybridRetriever.search up to the rerank request
ConcIndexSearch(c, r) ==
    /\ calls[c].pc = "vector_search"
    /\ LET found == Found(r)
           call == calls[c] IN
       /\ lastFound' = found
       /\ calls' = [calls EXCEPT ![c] =
             IF UseReranker(call.use_reranker)
             THEN IF found = <<>>
                  THEN [@ EXCEPT !.pc = "done", !.rotation = r, !.candidates = found,
                                 !.results = <<>>]
                  ELSE [@ EXCEPT !.pc = "reranking", !.rotation = r,
                                 !.candidates = found]
             ELSE [@ EXCEPT !.pc = "done", !.rotation = r, !.candidates = found,
                            !.results = Take(found, call.top_k)]]
    /\ UNCHANGED <<retrVars, nonConcVars>>

\* requests.post of ZeroEntropyReranker.rerank for caller c and what follows
ConcRerank(c, kind, items, scored) ==
    /\ calls[c].pc = "reranking"
    /\ LET cands == Candidates(c)
           call == calls[c]
           answer == [kind |-> kind, items |-> items, scored |-> scored] IN
       calls' = [calls EXCEPT ![c] =
          CASE kind \in {"transport_error", "bad_body"} ->
                 [@ EXCEPT !.pc = "error", !.error = "rerank", !.answer = answer]
            [] kind = "http_error" ->
                 [@ EXCEPT !.pc = "done", !.answer = answer,
                           !.results = Take(cands, call.top_k)]
            [] kind = "ok" ->
                 [@ EXCEPT !.pc = "done", !.answer = answer,
                           !.results = RerankedResults(cands, items, scored)]]
    /\ UNCHANGED <<lastFound, retrVars, nonConcVars>>

ConcNext ==
    \E c \in Clients :
        \/ \E k \in ConcTopKs, u \in BOOLEAN : ConcStart(c, <<"q">>, k, u)
        \/ \E ok \in BOOLEAN : ConcEmbed(c, ok)
        \/ \E r \in ConcRotations : ConcIndexSearch(c, r)
        \/ \E items \in RerankItems(Len(Candidates(c)),
                                     Min(calls[c].top_k, Len(Candidates(c)))) :
              \E scored \in BOOLEAN : ConcRerank(c, "ok", items, scored)
        \/ \E kind \in {"transport_error", "http_error", "bad_body"} :
              ConcRerank(c, kind, <<>>, FALSE)

\* ------------------------------------------------------------------------
\* Worker distribution: scripts/utils/worker_distribution.py get_worker_pdfs
\* ------------------------------------------------------------------------
DistParked ==
    /\ all_pdfs = <<>>
    /\ total_workers = 0
    /\ slices = <<>>

\* n distinct PDF keys in sorted order
PdfKeys(n) == [i \in 1..n |-> i]

\* `i % total_workers` for the 0-based position i of enumerate(all_pdfs)
AssignedWorkerOneBased(i, workers) == (i + 1) % workers
AssignedWorker(i, workers) == i % workers

\* get_worker_pdfs, the loop from position i (1-based here) on
RECURSIVE WorkerPdfsFrom(_, _, _, _)
WorkerPdfsFrom(pdfs, i, worker_id, workers) ==
    IF i > Len(pdfs) THEN <<>>
    ELSE (IF AssignedWorker(i - 1, workers) = worker_id THEN <<pdfs[i]>> ELSE <<>>)
         \o WorkerPdfsFrom(pdfs, i + 1, worker_id, workers)

GetWorkerPdfs(pdfs, worker_id, workers) == WorkerPdfsFrom(pdfs, 1, worker_id, workers)

DistInit ==
    /\ all_pdfs \in {PdfKeys(n) : n \in 0..MaxPdfs}
    /\ total_workers \in 1..MaxWorkers
    /\ slices = <<>>

\* worker w of the job calls get_worker_pdfs(all_pdfs, w, total_workers)
DoGetWorkerPdfs(w) ==
    /\ total_workers > 0
    /\ w \notin DOMAIN slices
    /\ slices' = [x \in DOMAIN slices \cup {w} |->
                     IF x = w THEN GetWorkerPdfs(all_pdfs, w, total_workers)
                     ELSE slices[x]]
    /\ UNCHANGED <<all_pdfs, total_workers, nonDistVars>>

DistNext == \E w \in 0..(total_workers - 1) : DoGetWorkerPdfs(w)

\* ------------------------------------------------------------------------
\* S3 listing: scripts/utils/s3_utils.py list_pdfs_from_s3
\* ------------------------------------------------------------------------
ListParked ==
    /\ listing = <<>>
    /\ lpc = "idle"
    /\ pdf_keys = <<>>
    /\ continuation_token = 0
    /\ requests = <<>>
    /\ listed = <<>>

ObjectKeys == {1, 2}
Pages == UNION {[1..n -> ObjectKeys] : n \in 0..MaxPageKeys}
Listings == UNION {[1..n -> Pages] : n \in 1..MaxListPages}

\* S3 list_objects_v2: without a token the first page, with the token of
\* page i the page after it; the token of page i is i
ListObjectsV2(pages, token) ==
    [Contents |-> pages[token + 1],
     IsTruncated |-> token + 1 < Len(pages),
     NextContinuationToken |-> token + 1]

\* `if response.get('IsTruncated', False)`
FirstPageOnly(response) == FALSE
MorePages(response) == response.IsTruncated

\* sorted(pdf_keys)
RECURSIVE InsertKey(_, _)
InsertKey(key, keys) ==
    IF keys = <<>> THEN <<key>>
    ELSE IF key <= Head(keys) THEN <<key>> \o keys
    ELSE <<Head(keys)>> \o InsertKey(key, Tail(keys))

RECURSIVE Sorted(_)
Sorted(keys) ==
    IF keys = <<>> THEN <<>> ELSE InsertKey(Head(keys), Sorted(Tail(keys)))

ListInit ==
    /\ listing \in Listings
    /\ lpc = "listing"
    /\ pdf_keys = <<>>
    /\ continuation_token = 0
    /\ requests = <<>>
    /\ listed = <<>>

\* one turn of the `while True` loop: request, extend pdf_keys, then either
\* keep the next token or leave the loop and return sorted(pdf_keys)
ListPage ==
    /\ lpc = "listing"
    /\ LET response == ListObjectsV2(listing, continuation_token) IN
         /\ requests' = Append(requests, continuation_token)
         /\ pdf_keys' = pdf_keys \o response.Contents
         /\ IF MorePages(response)
            THEN /\ continuation_token' = response.NextContinuationToken
                 /\ UNCHANGED <<lpc, listed>>
            ELSE /\ lpc' = "done"
                 /\ listed' = Sorted(pdf_keys')
                 /\ UNCHANGED continuation_token
    /\ UNCHANGED <<listing, nonListVars>>

ListNext == ListPage

\* ------------------------------------------------------------------------
\* Distributed worker: scripts/distributed_worker.py, scripts/utils/s3_utils.py
\* ------------------------------------------------------------------------
WorkParked ==
    /\ bucket = <<>>
    /\ my_pdfs = <<>>
    /\ wpc = "idle"
    /\ wpos = 0
    /\ successful = 0
    /\ failed = 0
    /\ failures = <<>>
    /\ attempts = <<>>
    /\ probes = <<>>
    /\ skipped = {}
    /\ completed = {}
    /\ reportUploaded = FALSE
    /\ exitStatus = -1
    /\ runs = 0

\* what head_object can do for a key: succeed when the object is there, fail
\* with ClientError 404 when it is not, or fail otherwise (a ClientError of
\* another code, or an error that is no ClientError)
HeadOutcomes(present) ==
    (IF present THEN {"ok"} ELSE {"404"}) \cup {"403", "timeout"}

\* s3_object_exists: True, False, or the error raised again
ExistsAnswerMissingOnError(outcome) ==
    IF outcome = "ok" THEN "True" ELSE "False"
ExistsAnswer(outcome) ==
    IF outcome = "ok" THEN "True"
    ELSE IF outcome = "404" THEN "False"
    ELSE "raised"

\* the step of process_pdf's try block that raises, if any
PdfFaults == {"none", "download", "parse", "markdown_missing", "upload_document",
              "upload_metadata", "upload_figure"}

\* the objects process_pdf has put under processed/{pdf_id}/ when it leaves
\* the try block: document.md first, then metadata.json if the parser wrote
\* a json file, then the figures if it wrote any
Uploaded(fault, has_json, has_figures) ==
    IF fault \in {"download", "parse", "markdown_missing", "upload_document"} THEN {}
    ELSE IF fault = "upload_metadata" THEN {"document.md"}
    ELSE IF fault = "upload_figure"
         THEN {"document.md"} \cup (IF has_json THEN {"metadata.json"} ELSE {})
    ELSE {"document.md"} \cup (IF has_json THEN {"metadata.json"} ELSE {})
                         \cup (IF has_figures THEN {"figures"} ELSE {})

WorkInit ==
    /\ bucket = [p \in 1..MaxSlice |-> {}]
    /\ my_pdfs \in {PdfKeys(n) : n \in 0..MaxSlice}
    /\ wpc = "loop"
    /\ wpos = 1
    /\ successful = 0
    /\ failed = 0
    /\ failures = <<>>
    /\ attempts = <<>>
    /\ probes = <<>>
    /\ skipped = {}
    /\ completed = {}
    /\ reportUploaded = FALSE
    /\ exitStatus = -1
    /\ runs = 1

\* run: `if not my_pdfs: return`
WorkerNoPdfs ==
    /\ wpc = "loop"
    /\ my_pdfs = <<>>
    /\ wpc' = "exited"
    /\ exitStatus' = 0
    /\ UNCHANGED <<bucket, my_pdfs, wpos, successful, failed, failures, attempts, probes,
                   skipped, completed, reportUploaded, runs, nonWorkVars>>

\* one turn of run's loop: process_pdf(pdf_key) and the counting of its result.
\* s3_object_exists is called before the try block, so an error it raises
\* leaves process_pdf and run and reaches main, which exits with status 1.
WorkerProcessPdf(head, fault, has_json, has_figures) ==
    /\ wpc = "loop"
    /\ wpos <= Len(my_pdfs)
    /\ LET pdf_key == my_pdfs[wpos]
           answer == ExistsAnswer(head)
       IN
         /\ head \in HeadOutcomes("document.md" \in bucket[pdf_key])
         /\ answer # "False" => (fault = "none" /\ ~has_json /\ ~has_figures)
         /\ fault = "upload_metadata" => has_json
         /\ fault = "upload_figure" => has_figures
         /\ attempts' = Append(attempts, pdf_key)
         /\ probes' = Append(probes, [outcome |-> head, answer |-> answer])
         /\ IF answer = "raised"
            THEN /\ wpc' = "exited"
                 /\ exitStatus' = 1
                 /\ UNCHANGED <<bucket, wpos, successful, failed, failures, skipped,
                                completed>>
            ELSE IF answer = "True"
            THEN /\ skipped' = skipped \cup {pdf_key}
                 /\ successful' = successful + 1
                 /\ wpos' = wpos + 1
                 /\ UNCHANGED <<bucket, wpc, exitStatus, failed, failures, completed>>
            ELSE /\ bucket' = [bucket EXCEPT ![pdf_key] =
                                  @ \cup Uploaded(fault, has_json, has_figures)]
                 /\ wpos' = wpos + 1
                 /\ IF fault = "none"
                    THEN /\ successful' = successful + 1
                         /\ completed' = completed \cup {pdf_key}
                         /\ UNCHANGED <<failed, failures>>
                    ELSE /\ failed' = failed + 1
                         /\ failures' = Append(failures, pdf_key)
                         /\ UNCHANGED <<successful, completed>>
                 /\ UNCHANGED <<wpc, exitStatus, skipped>>
    /\ UNCHANGED <<my_pdfs, reportUploaded, runs, nonWorkVars>>

\* the end of run: upload_failure_report when self.failures is not empty
\* (an upload error is caught and logged), then sys.exit(1) when failed > 0
WorkerSummary(upload_ok) ==
    /\ wpc = "loop"
    /\ my_pdfs # <<>>
    /\ wpos > Len(my_pdfs)
    /\ failures = <<>> => upload_ok
    /\ reportUploaded' = (failures # <<>> /\ upload_ok)
    /\ exitStatus' = IF failed > 0 THEN 1 ELSE 0
    /\ wpc' = "exited"
    /\ UNCHANGED <<bucket, my_pdfs, wpos, successful, failed, failures, attempts, probes,
                   skipped, completed, runs, nonWorkVars>>

\* the same worker is started again over the same slice
WorkerRerun ==
    /\ wpc = "exited"
    /\ runs < MaxRuns
    /\ runs' = runs + 1
    /\ wpc' = "loop"
    /\ wpos' = 1
    /\ successful' = 0
    /\ failed' = 0
    /\ failures' = <<>>
    /\ attempts' = <<>>
    /\ probes' = <<>>
    /\ reportUploaded' = FALSE
    /\ exitStatus' = -1
    /\ UNCHANGED <<bucket, my_pdfs, skipped, completed, nonWorkVars>>

WorkNext ==
    \/ WorkerNoPdfs
    \/ \E head \in {"ok", "404", "403", "timeout"}, fault \in PdfFaults,
          has_json \in BOOLEAN, has_figures \in BOOLEAN :
          WorkerProcessPdf(head, fault, has_json, has_figures)
    \/ \E upload_ok \in BOOLEAN : WorkerSummary(upload_ok)
    \/ WorkerRerun

\* ------------------------------------------------------------------------
\* Embedder: rag_pipeline/rag/openai_embedder.py OpenAIEmbedder
\* ------------------------------------------------------------------------
EmbParked ==
    /\ max_retries = 0
    /\ epc = "idle"
    /\ tries = 0
    /\ embedResults = <<>>

\* the attempt after which the retry decorator of generate_embedding stops
StopAttempt(retries) == StopAfterAttempt

EmbInit ==
    /\ max_retries \in 1..MaxRetriesArg
    /\ epc = "idle"
    /\ tries = 0
    /\ embedResults = <<>>

\* a caller enters generate_embedding(text)
EmbedCall ==
    /\ epc = "idle"
    /\ Len(embedResults) < MaxEmbedCalls
    /\ epc' = "trying"
    /\ tries' = 0
    /\ UNCHANGED <<max_retries, embedResults, nonEmbVars>>

\* one attempt: client.embeddings.create answers or raises; the decorator
\* returns the first answer, tries again after an error, and gives up after
\* the stopping attempt
EmbedRequest(ok) ==
    /\ epc = "trying"
    /\ tries' = tries + 1
    /\ IF ok
       THEN /\ embedResults' = Append(embedResults,
                    [attempts |-> tries', outcome |-> "returned", embedding |-> tries'])
            /\ epc' = "idle"
       ELSE IF tries' >= StopAttempt(max_retries)
       THEN /\ embedResults' = Append(embedResults,
                    [attempts |-> tries', outcome |-> "failed", embedding |-> 0])
            /\ epc' = "idle"
       ELSE UNCHANGED <<embedResults, epc>>
    /\ UNCHANGED <<max_retries, nonEmbVars>>

EmbNext ==
    \/ EmbedCall
    \/ \E ok \in BOOLEAN : EmbedRequest(ok)

\* ------------------------------------------------------------------------
\* Chat endpoint: api/main.py chat, api/config.py
\* ------------------------------------------------------------------------
\* values of searchOutcome that are no result count
NoSearch == -2
SearchRaised == -1

ChatParked ==
    /\ chatReq = <<>>
    /\ chpc = "idle"
    /\ searchRuns = 0
    /\ searchOutcome = NoSearch
    /\ completions = <<>>
    /\ chatStatus = "none"

DEFAULT_MODEL == "openai/gpt-5-mini"
\* three of the models of api/config.py
AVAILABLE_MODELS == {"openai/gpt-5-mini", "openai/gpt-5o", "deepseek/deepseek-chat"}
\* the models a request can name: the available ones and the default value
\* of ChatRequest.model, which is not an available model
RequestModels == AVAILABLE_MODELS \cup {"gpt-4o-mini"}

ChatRequests ==
    [retriever_loaded : BOOLEAN,      \* the global retriever is set
     api_key : BOOLEAN,               \* OPENROUTER_API_KEY is set
     message_blank : BOOLEAN,         \* request.message.strip() is empty
     use_reranker : BOOLEAN,          \* request.use_reranker, handed to the retriever
     model : RequestModels]

\* the checks before retrieval, in the order of the handler
ChatRejection(req) ==
    IF ~req.retriever_loaded THEN "503"
    ELSE IF ~req.api_key THEN "503"
    ELSE IF req.message_blank THEN "400"
    ELSE IF req.model \notin AVAILABLE_MODELS THEN "400"
    ELSE "none"

\* `if request.model != DEFAULT_MODEL` in the except block
FallsBackAlways(model) == TRUE
FallsBack(model) == model # DEFAULT_MODEL

ChatInit ==
    /\ chatReq \in ChatRequests
    /\ chpc = "idle"
    /\ searchRuns = 0
    /\ searchOutcome = NoSearch
    /\ completions = <<>>
    /\ chatStatus = "none"

\* the precondition checks at the head of chat
ChatValidate ==
    /\ chpc = "idle"
    /\ IF ChatRejection(chatReq) = "none"
       THEN /\ chpc' = "retrieve"
            /\ UNCHANGED chatStatus
       ELSE /\ chpc' = "done"
            /\ chatStatus' = ChatRejection(chatReq)
    /\ UNCHANGED <<chatReq, searchRuns, searchOutcome, completions, nonChatVars>>

\* retriever.search: raises (not caught by chat), or returns n results;
\* with no result the canned answer is returned at once
ChatRetrieve(outcome) ==
    /\ chpc = "retrieve"
    /\ searchRuns' = searchRuns + 1
    /\ searchOutcome' = outcome
    /\ IF outcome = SearchRaised
       THEN chpc' = "done" /\ chatStatus' = "unhandled"
       ELSE IF outcome = 0
       THEN chpc' = "done" /\ chatStatus' = "200"
       ELSE chpc' = "complete" /\ UNCHANGED chatStatus
    /\ UNCHANGED <<chatReq, completions, nonChatVars>>

\* completion(model=request.model, ...) and the head of the except block
ChatComplete(ok) ==
    /\ chpc = "complete"
    /\ completions' = Append(completions, [model |-> chatReq.model, ok |-> ok])
    /\ IF ok
       THEN chpc' = "done" /\ chatStatus' = "200"
       ELSE IF FallsBack(chatReq.model)
       THEN chpc' = "fallback" /\ UNCHANGED chatStatus
       ELSE chpc' = "done" /\ chatStatus' = "503"
    /\ UNCHANGED <<chatReq, searchRuns, searchOutcome, nonChatVars>>

\* completion(model=DEFAULT_MODEL, ...) in the except block
ChatFallback(ok) ==
    /\ chpc = "fallback"
    /\ completions' = Append(completions, [model |-> DEFAULT_MODEL, ok |-> ok])
    /\ chpc' = "done"
    /\ chatStatus' = IF ok THEN "200" ELSE "503"
    /\ UNCHANGED <<chatReq, searchRuns, searchOutcome, nonChatVars>>

ChatNext ==
    \/ ChatValidate
    \/ \E outcome \in {SearchRaised} \cup 0..MaxSources : ChatRetrieve(outcome)
    \/ \E ok \in BOOLEAN : ChatComplete(ok)
    \/ \E ok \in BOOLEAN : ChatFallback(ok)

\* ------------------------------------------------------------------------
\* Batch pipeline: packages/worker/worker/process_pdfs_batch.py main
\* ------------------------------------------------------------------------
\* queue.Queue(maxsize=2)
QueueSize == 2
\* the end-of-stream marker None, and "holding nothing"
None == 0
NoItem == -1
\* items of process_queue: (doc_id, error)
Parsed(doc_id, err) == [doc |-> doc_id, error |-> err]
NoneItem == Parsed(None, FALSE)
NoParsed == Parsed(NoItem, FALSE)

PipeParked ==
    /\ unprocessed = <<>>
    /\ dpos = 0
    /\ dhold = NoItem
    /\ ddone = FALSE
    /\ download_queue = <<>>
    /\ phold = NoParsed
    /\ pdone = FALSE
    /\ process_queue = <<>>
    /\ udone = FALSE
    /\ outputDir = {}
    /\ storedMd = {}
    /\ storedFigs = {}
    /\ uploaded = <<>>
    /\ pfailed = <<>>

PipeInit ==
    /\ unprocessed \in {PdfKeys(n) : n \in 1..MaxDocs}
    /\ dpos = 1
    /\ dhold = NoItem
    /\ ddone = FALSE
    /\ download_queue = <<>>
    /\ phold = NoParsed
    /\ pdone = FALSE
    /\ process_queue = <<>>
    /\ udone = FALSE
    /\ outputDir = {}
    /\ storedMd = {}
    /\ storedFigs = {}
    /\ uploaded = <<>>
    /\ pfailed = <<>>

\* downloader: download_from_s3 for the next PDF; a failure is appended to
\* failed and the loop goes on
Download(ok) ==
    /\ ~ddone
    /\ dhold = NoItem
    /\ dpos <= Len(unprocessed)
    /\ dpos' = dpos + 1
    /\ IF ok
       THEN dhold' = unprocessed[dpos] /\ UNCHANGED pfailed
       ELSE pfailed' = Append(pfailed, unprocessed[dpos]) /\ UNCHANGED dhold
    /\ UNCHANGED <<unprocessed, ddone, download_queue, phold, pdone, process_queue, udone,
                   outputDir, storedMd, storedFigs, uploaded, nonPipeVars>>

\* downloader: download_queue.put((doc_id, local_pdf)), waits while the queue is full
DownloaderPut ==
    /\ dhold # NoItem
    /\ Len(download_queue) < QueueSize
    /\ download_queue' = Append(download_queue, dhold)
    /\ dhold' = NoItem
    /\ UNCHANGED <<unprocessed, dpos, ddone, phold, pdone, process_queue, udone, outputDir,
                   storedMd, storedFigs, uploaded, pfailed, nonPipeVars>>

\* downloader: download_queue.put(None) after the loop
DownloaderFinish ==
    /\ ~ddone
    /\ dhold = NoItem
    /\ dpos > Len(unprocessed)
    /\ Len(download_queue) < QueueSize
    /\ download_queue' = Append(download_queue, None)
    /\ ddone' = TRUE
    /\ UNCHANGED <<unprocessed, dpos, dhold, phold, pdone, process_queue, udone, outputDir,
                   storedMd, storedFigs, uploaded, pfailed, nonPipeVars>>

\* what the processor hands on when it has read the marker
ForwardsNothing(item) == NoParsed
ForwardsMarker(item) == NoneItem

\* processor: download_queue.get(), then for a document pipeline.parse_document,
\* which writes the output files of the document or raises
ProcessorGet(ok) ==
    /\ ~pdone
    /\ phold = NoParsed
    /\ download_queue # <<>>
    /\ download_queue' = Tail(download_queue)
    /\ LET item == Head(download_queue) IN
         IF item = None
         THEN /\ ok
              /\ phold' = ForwardsMarker(item)
              /\ pdone' = (phold' = NoParsed)
              /\ UNCHANGED outputDir
         ELSE /\ phold' = Parsed(item, ~ok)
              /\ outputDir' = IF ok THEN outputDir \cup {item} ELSE outputDir
              /\ UNCHANGED pdone
    /\ UNCHANGED <<unprocessed, dpos, dhold, ddone, process_queue, udone, storedMd,
                   storedFigs, uploaded, pfailed, nonPipeVars>>

\* processor: process_queue.put(...), waits while the queue is full; after
\* putting the marker the processor returns
ProcessorPut ==
    /\ phold # NoParsed
    /\ Len(process_queue) < QueueSize
    /\ process_queue' = Append(process_queue, phold)
    /\ phold' = NoParsed
    /\ pdone' = (phold = NoneItem)
    /\ UNCHANGED <<unprocessed, dpos, dhold, ddone, download_queue, udone, outputDir,
                   storedMd, storedFigs, uploaded, pfailed, nonPipeVars>>

\* uploader: process_queue.get() and what follows it: return on the marker,
\* record a parse failure, or upload_results (document.md if the markdown
\* file exists, every file of the figures directory) and then delete every
\* file under /tmp/output/markdown and /tmp/output/recognition_json
UploaderTake(ok) ==
    /\ ~udone
    /\ process_queue # <<>>
    /\ process_queue' = Tail(process_queue)
    /\ LET item == Head(process_queue) IN
         IF item = NoneItem
         THEN /\ ok
              /\ udone' = TRUE
              /\ UNCHANGED <<outputDir, storedMd, storedFigs, uploaded, pfailed>>
         ELSE IF item.error
         THEN /\ ok
              /\ pfailed' = Append(pfailed, item.doc)
              /\ UNCHANGED <<udone, outputDir, storedMd, storedFigs, uploaded>>
         ELSE IF ok
         THEN /\ storedMd' = storedMd \cup (outputDir \cap {item.doc})
              /\ storedFigs' = storedFigs \cup {<<item.doc, o>> : o \in outputDir}
              /\ uploaded' = Append(uploaded, item.doc)
              /\ outputDir' = {}
              /\ UNCHANGED <<udone, pfailed>>
         ELSE /\ pfailed' = Append(pfailed, item.doc)
              /\ UNCHANGED <<udone, outputDir, storedMd, storedFigs, uploaded>>
    /\ UNCHANGED <<unprocessed, dpos, dhold, ddone, download_queue, phold, pdone,
                   nonPipeVars>>

Downloader == (\E ok \in BOOLEAN : Download(ok)) \/ DownloaderPut \/ DownloaderFinish
Processor == (\E ok \in BOOLEAN : ProcessorGet(ok)) \/ ProcessorPut
Uploader == \E ok \in BOOLEAN : UploaderTake(ok)

PipeNext == Downloader \/ Processor \/ Uploader

IngestParked == DistParked /\ ListParked /\ WorkParked /\ EmbParked /\ ChatParked /\ PipeParked

vars == <<retrVars, chunkVars, batchVars, concVars, ingestVars>>

InitRetriever == RetrInit /\ ChunkParked /\ BatchParked /\ ConcParked /\ IngestParked
SpecRetriever == InitRetriever /\ [][RetrNext]_vars

\* the retriever is not in use
RetrParked ==
    /\ loaded = FALSE
    /\ reranker = FALSE
    /\ faiss_candidates = DefaultFaissCandidates
    /\ ntotal = 0
    /\ pc = "idle"
    /\ entry = "none"
    /\ query = <<>>
    /\ top_k = 0
    /\ use_reranker = FALSE
    /\ hybridSearchCalls = 0
    /\ faissSearchCalls = 0
    /\ faissAskedN = 0
    /\ embedAttempts = 0
    /\ indexQueries = 0
    /\ indexAskedN = 0
    /\ rerankCalls = 0
    /\ rerankAskedTopN = 0
    /\ rerankOutcome = "none"
    /\ candidates = <<>>
    /\ results = <<>>
    /\ error = "none"
    /\ httpStatus = "none"

SectionsNext == DoSplitIntoSections
InitSections == SectionsInit /\ RetrParked /\ BatchParked /\ ConcParked /\ IngestParked
SpecSections == InitSections /\ [][SectionsNext]_vars

BoundaryNext == DoSplitAtParagraphBoundary
InitBoundary == BoundaryInit /\ RetrParked /\ BatchParked /\ ConcParked /\ IngestParked
SpecBoundary == InitBoundary /\ [][BoundaryNext]_vars

OverlapNext == DoAddOverlap
InitOverlap == OverlapInit /\ RetrParked /\ BatchParked /\ ConcParked /\ IngestParked
SpecOverlap == InitOverlap /\ [][OverlapNext]_vars

InitBatch == BatchInit /\ RetrParked /\ ChunkParked /\ ConcParked /\ IngestParked
SpecBatch == InitBatch /\ [][BatchNext]_vars

InitConcurrent == ConcInit /\ ChunkParked /\ BatchParked /\ IngestParked
SpecConcurrent == InitConcurrent /\ [][ConcNext]_vars

InitDist == DistInit /\ RetrParked /\ ChunkParked /\ BatchParked /\ ConcParked /\ ListParked /\ WorkParked /\ EmbParked /\ ChatParked /\ PipeParked
SpecDist == InitDist /\ [][DistNext]_vars

InitList == ListInit /\ RetrParked /\ ChunkParked /\ BatchParked /\ ConcParked /\ DistParked /\ WorkParked /\ EmbParked /\ ChatParked /\ PipeParked
SpecList == InitList /\ [][ListNext]_vars

InitWork == WorkInit /\ RetrParked /\ ChunkParked /\ BatchParked /\ ConcParked /\ DistParked /\ ListParked /\ EmbParked /\ ChatParked /\ PipeParked
SpecWork == InitWork /\ [][WorkNext]_vars

InitEmb == EmbInit /\ RetrParked /\ ChunkParked /\ BatchParked /\ ConcParked /\ DistParked /\ ListParked /\ WorkParked /\ ChatParked /\ PipeParked
SpecEmb == InitEmb /\ [][EmbNext]_vars

InitChat == ChatInit /\ RetrParked /\ ChunkParked /\ BatchParked /\ ConcParked /\ DistParked /\ ListParked /\ WorkParked /\ EmbParked /\ PipeParked
SpecChat == InitChat /\ [][ChatNext]_vars

InitPipe == PipeInit /\ RetrParked /\ ChunkParked /\ BatchParked /\ ConcParked /\ DistParked /\ ListParked /\ WorkParked /\ EmbParked /\ ChatParked
SpecPipe == InitPipe /\ [][PipeNext]_vars
\* each stage runs on a thread of its own and every call it makes returns
InitPipeFair == InitPipe
SpecPipeFair ==
    /\ InitPipeFair
    /\ [][PipeNext]_vars
    /\ WF_vars(Downloader)
    /\ WF_vars(Processor)
    /\ WF_vars(Uploader)

ChunkNext == DoCreateCoarseChunks \/ DoCreateFineChunks \/ SkipFineChunks
InitChunk == ChunkInit /\ RetrParked /\ BatchParked /\ ConcParked /\ IngestParked
SpecChunk == InitChunk /\ [][ChunkNext]_vars

DetNext == ChunkDocument \/ Remember \/ (\E i \in DetInputs : NextDocument(i))
InitDeterminism == DetInit /\ RetrParked /\ BatchParked /\ ConcParked /\ IngestParked
SpecDeterminism == InitDeterminism /\ [][DetNext]_vars

\* ------------------------------------------------------------------------
\* Chunker properties
\* ------------------------------------------------------------------------

ContiguousIndices(chunks) ==
    \A i \in 1..Len(chunks) :
        /\ chunks[i].chunk_index = i - 1
        /\ chunks[i].total_chunks = Len(chunks)

\* C8: in the coarse list and in the fine list of a document the chunk at
\* position i has chunk_index = i (0..N-1, no gap, no repeat) and every chunk
\* has total_chunks = N; the fine index is not reset at coarse boundaries.
C8_IndexContiguity ==
    /\ (cpc \in {"coarse_done", "done"} => ContiguousIndices(coarse))
    /\ (cpc = "done" => ContiguousIndices(fine))

\* two coarse chunks, the second of which opens the fine list at an index > 0,
\* and a coarse chunk that gives more than one fine chunk
C8_Witness ==
    /\ cpc = "done"
    /\ Len(coarse) >= 2
    /\ \E k \in 2..Len(fine) : ~fine[k].overlap_with_previous
    /\ \E k \in 2..Len(fine) : fine[k].overlap_with_previous

\* the headings h[j], j <= i, not closed by a later heading (up to h[i]) of
\* equal or smaller level
OpenAt(hs, i) == {j \in 1..i : \A k \in (j + 1)..i : hs[k].level > hs[j].level}

RECURSIVE TextsOf(_, _, _)
TextsOf(hs, J, j) ==
    IF j > Len(hs) THEN <<>>
    ELSE (IF j \in J THEN <<hs[j].text>> ELSE <<>>) \o TextsOf(hs, J, j + 1)

\* the level of the heading whose text is t (texts are distinct in SectionDocs)
LevelOfText(hs, t) == hs[CHOOSE j \in 1..Len(hs) : hs[j].text = t].level

ExampleHeadings ==
    JoinLines(<<SectionLine(1, 1), SectionLine(2, 2), SectionLine(2, 3),
                SectionLine(1, 4)>>)

\* C9: the hierarchy of the section a heading h opens ends with h's text, has
\* strictly increasing levels, and holds exactly the headings before h that no
\* later heading of equal or smaller level has closed; # A, ## B, ## C, # D
\* gives [A], [A,B], [A,C], [D].
C9_HierarchyIsOpenHeadings ==
    cpc = "done" =>
        LET hs == ExtractHierarchy(input.text) IN
        /\ (hs # <<>> =>
              /\ Len(sections) = Len(hs)
              /\ \A i \in 1..Len(hs) :
                    LET hier == sections[i].heading_hierarchy IN
                    /\ hier = TextsOf(hs, OpenAt(hs, i), 1)
                    /\ hier[Len(hier)] = hs[i].text
                    /\ \A a, b \in 1..Len(hier) :
                          a < b => LevelOfText(hs, hier[a]) < LevelOfText(hs, hier[b]))
        /\ (input.text = ExampleHeadings =>
              [i \in 1..Len(sections) |-> sections[i].heading_hierarchy]
                 = << << <<"A">> >>, << <<"A">>, <<"B">> >>,
                      << <<"A">>, <<"C">> >>, << <<"D">> >> >>)

C9_Witness ==
    /\ cpc = "done"
    /\ input.text = ExampleHeadings
    /\ Len(sections) = 4

ExampleParagraphs ==
    JoinWith(<<ParaText(3, 1), ParaText(3, 2), ParaText(3, 3)>>, <<NL, NL>>)

\* C10: for a text longer than max_size every chunk of the boundary chunker
\* has length <= max_size or is a single paragraph, and a chunk is closed
\* before paragraph p only when its length + 2 + len(p) > max_size; three
\* 40-character paragraphs with max_size 85 give chunks of 82 and 40.
C10_BoundaryPacking ==
    (cpc = "done" /\ Len(input.text) > input.max_size) =>
        /\ \A k \in 1..Len(pieces) :
              Len(pieces[k]) <= input.max_size \/ FirstBlank(pieces[k]) = 0
        /\ \A k \in 1..(Len(pieces) - 1) :
              Len(pieces[k]) + 2 + Len(SplitParagraphs(pieces[k + 1])[1])
                 > input.max_size
        /\ ((input.text = ExampleParagraphs /\ input.max_size = 85) =>
              pieces = <<ParaText(3, 1) \o <<NL, NL>> \o ParaText(3, 2),
                         ParaText(3, 3)>>)

C10_Witness ==
    /\ cpc = "done"
    /\ input.text = ExampleParagraphs
    /\ input.max_size = 85
    /\ Len(pieces) = 2
    /\ Len(pieces[1]) = 82
    /\ Len(pieces[2]) = 40

\* the non-empty, whitespace-trimmed paragraphs of a text, in order
TrimmedParagraphs(text) ==
    LET ps == SplitParagraphs(text)
    IN SelectSeq([i \in 1..Len(ps) |-> Strip(ps[i])], LAMBDA p : p # <<>>)

\* the chunks split on blank lines, the pieces concatenated in order
RECURSIVE PiecesOf(_)
PiecesOf(chunks) ==
    IF chunks = <<>> THEN <<>>
    ELSE SplitParagraphs(Head(chunks)) \o PiecesOf(Tail(chunks))

\* the same with every piece trimmed and the empty ones left out
RECURSIVE TrimmedPiecesOf(_)
TrimmedPiecesOf(chunks) ==
    IF chunks = <<>> THEN <<>>
    ELSE TrimmedParagraphs(Head(chunks)) \o TrimmedPiecesOf(Tail(chunks))

LongParagraphsWhole ==
    \A i \in 1..Len(TrimmedParagraphs(input.text)) :
        LET para == TrimmedParagraphs(input.text)[i]
        IN Len(para) > input.max_size =>
              \E k \in 1..Len(pieces) : pieces[k] = para

\* C11 as stated: for every text and max_size the pieces of the returned
\* chunks, split on blank lines, are exactly the non-empty trimmed paragraphs
\* of the input in input order, and a paragraph longer than max_size is a
\* chunk of its own.
C11_PiecesAreTrimmedParagraphs ==
    cpc = "done" =>
        /\ PiecesOf(pieces) = TrimmedParagraphs(input.text)
        /\ LongParagraphsWhole

\* C11 amended: the pieces of the returned chunks, trimmed and without the
\* empty ones, are the non-empty trimmed paragraphs of the input in input
\* order for every text and max_size; for a text longer than max_size the
\* pieces need no trimming; a paragraph longer than max_size is a chunk of
\* its own.
C11_ParagraphsPreserved ==
    cpc = "done" =>
        /\ TrimmedPiecesOf(pieces) = TrimmedParagraphs(input.text)
        /\ Len(input.text) > input.max_size =>
              PiecesOf(pieces) = TrimmedParagraphs(input.text)
        /\ LongParagraphsWhole

C11_Witness ==
    /\ cpc = "done"
    /\ Len(TrimmedParagraphs(input.text)) = 3
    /\ Len(pieces) = 2
    /\ Len(pieces[1]) > input.max_size
    /\ FirstBlank(pieces[2]) > 0

\* the last n characters of s, none when n = 0
LastChars(s, n) == SubSeq(s, Len(s) - n + 1, Len(s))

\* C12: add_overlap leaves chunk 0 unchanged and, for each i > 0, returns
\* lstrip(S) + blank line + raw[i], S being the last
\* floor(len(raw[i-1]) * overlap_fraction) characters of raw[i-1], empty when
\* that floor is 0.
C12_OverlapIsSuffixOfPrevious ==
    cpc = "done" =>
        /\ Len(overlapped) = Len(input.chunks)
        /\ \A i \in 1..Len(overlapped) :
              IF i = 1 THEN overlapped[1] = input.chunks[1]
              ELSE LET raw == input.chunks
                       n == (Len(raw[i - 1]) * input.overlap_pct) \div 100
                   IN overlapped[i] =
                         LStrip(LastChars(raw[i - 1], n)) \o <<NL, NL>> \o raw[i]

\* C13: chunking the empty document yields zero coarse chunks and zero fine
\* chunks.
C13_EmptyDocumentNoChunks ==
    (cpc = "done" /\ input.text = <<>>) => (coarse = <<>> /\ fine = <<>>)

\* the texts create_coarse_chunks holds before add_overlap
RawCoarseTexts ==
    LET raw_chunks == RawChunks(SplitIntoSections(cleaned), 1)
    IN [k \in 1..Len(raw_chunks) |-> raw_chunks[k].text]

\* for every fine chunk, in order: its coarse chunk and its place among the
\* pieces of that coarse chunk
RECURSIVE FineOrigins(_, _)
FineOrigins(coarse_chunks, j) ==
    IF j > Len(coarse_chunks) THEN <<>>
    ELSE [i \in 1..Len(FinePieces(coarse_chunks[j].text)) |->
             [parent |-> j, piece |-> i]]
         \o FineOrigins(coarse_chunks, j + 1)

SpanIsTextLength(chunk) ==
    /\ chunk.char_end = chunk.char_start + Len(chunk.text)
    /\ chunk.char_start <= chunk.char_end

\* C14: for every coarse and fine chunk char_end = char_start + len(text),
\* text being the final text with its overlap; so char_start <= char_end and
\* the span of an overlapped chunk is longer than its un-overlapped text.
C14_CharEndIsStartPlusLength ==
    /\ \A k \in 1..Len(coarse) :
          /\ SpanIsTextLength(coarse[k])
          /\ coarse[k].overlap_with_previous =>
                coarse[k].char_end - coarse[k].char_start > Len(RawCoarseTexts[k])
    /\ cpc = "done" =>
          \A k \in 1..Len(fine) :
             /\ SpanIsTextLength(fine[k])
             /\ fine[k].overlap_with_previous =>
                   LET o == FineOrigins(coarse, 1)[k]
                   IN fine[k].char_end - fine[k].char_start
                         > Len(FinePieces(coarse[o.parent].text)[o.piece])

C14_Witness ==
    /\ cpc = "done"
    /\ \E k \in 1..Len(coarse) :
          coarse[k].overlap_with_previous /\ coarse[k].char_start > 0
    /\ \E k \in 1..Len(fine) :
          fine[k].overlap_with_previous /\ fine[k].char_start > 0

\* offset, within text, of the heading line that opens the section of chunk
\* (0 for a text without headings)
HeadingOffsetIn(text, chunk) ==
    LET headings == ExtractHierarchy(text)
        opening == chunk.section_hierarchy[Len(chunk.section_hierarchy)]
    IN IF headings = <<>> THEN 0
       ELSE LET i == CHOOSE i \in 1..Len(headings) : headings[i].text = opening
            IN CharOffset(SplitLines(text), headings[i].line)

\* C15: the char_start of every coarse chunk is the offset, within the
\* document text given to create_coarse_chunks, of the heading line that
\* opens its section (0 without headings), and the chunks of one section
\* share it.
C15_CharStartIsSourceOffset ==
    \A k \in 1..Len(coarse) :
        /\ coarse[k].char_start = HeadingOffsetIn(input.text, coarse[k])
        /\ \A l \in 1..Len(coarse) :
              coarse[l].section_hierarchy = coarse[k].section_hierarchy =>
                 coarse[l].char_start = coarse[k].char_start

\* C16: the fine list is the concatenation, in coarse order, of the fine
\* pieces of each coarse chunk; every fine chunk has its parent's
\* section_hierarchy and char_start; the coarse chunks are as
\* create_coarse_chunks returned them.
C16_FineIsConcatenation ==
    (cpc = "done" /\ input.create_both_types) =>
        LET origins == FineOrigins(coarse, 1)
        IN /\ Len(fine) = Len(origins)
           /\ \A k \in 1..Len(fine) :
                 LET parent == coarse[origins[k].parent]
                     texts == AddOverlap(FinePieces(parent.text),
                                         cfg.fine_overlap_pct)
                 IN /\ fine[k].text = texts[origins[k].piece]
                    /\ fine[k].section_hierarchy = parent.section_hierarchy
                    /\ fine[k].char_start = parent.char_start
           /\ \A k \in 1..(Len(fine) - 1) :
                 origins[k].parent <= origins[k + 1].parent
           /\ coarse = CreateCoarseChunks(input.text, input.paper_id,
                                          input.paper_title)

C16_Witness ==
    /\ cpc = "done"
    /\ input.create_both_types
    /\ Len(coarse) >= 2
    /\ LET origins == FineOrigins(coarse, 1)
       IN /\ Len(fine) = Len(origins)
          /\ \E k \in 1..(Len(fine) - 2) :
                /\ origins[k].parent = 1
                /\ origins[k + 1].parent = 2
                /\ origins[k + 2].parent = 2
                /\ fine[k + 2].char_start > 0
                /\ fine[k + 2].char_start = coarse[2].char_start

HasRuleLine(s) ==
    \E i \in 1..Len(s) :
        LET d == RunOf(Drop(s, i), DASH)
        IN s[i] = NL /\ d >= 3 /\ Len(s) >= i + d + 1 /\ s[i + d + 1] = NL

HasNewlineRun(s) ==
    \E i \in 1..(Len(s) - 2) : s[i] = NL /\ s[i + 1] = NL /\ s[i + 2] = NL

\* C18: the normalized text of create_coarse_chunks has no rule line and no
\* run of three or more newlines, for every input; normalizing it again
\* changes nothing.
C18_NormalizedTextIsClean ==
    cpc \in {"coarse_done", "done"} =>
        /\ ~HasRuleLine(cleaned)
        /\ ~HasNewlineRun(cleaned)
        /\ CleanMarkdown(cleaned) = cleaned

\* s occurs in t as a run of consecutive characters
OccursIn(s, t) ==
    \E a \in 1..(Len(t) - Len(s) + 1) : SubSeq(t, a, a + Len(s) - 1) = s

\* C30: every non-empty paragraph of the normalized document text is whole
\* in the text of at least one coarse chunk, also a paragraph that stands
\* before the first heading.
C30_NoParagraphLost ==
    cpc \in {"coarse_done", "done"} =>
        \A i \in 1..Len(TrimmedParagraphs(cleaned)) :
            \E k \in 1..Len(coarse) :
                OccursIn(TrimmedParagraphs(cleaned)[i], coarse[k].text)

\* ------------------------------------------------------------------------
\* Batch job properties
\* ------------------------------------------------------------------------
\* the paper ids the job has recorded as failed
RecordedFailures ==
    IF job.script = "batch_chunk_markdown"
    THEN {stats.errors[i].paper_id : i \in 1..Len(stats.errors)}
    ELSE {stats.failed_papers[i] : i \in 1..Len(stats.failed_papers)}

\* C19: a failure while loading, chunking or saving one paper never ends the
\* job: the papers are taken once each in list order, every paper that
\* failed is recorded, and at the end processed + failed is the number of
\* selected papers.
C19_BatchContinuesAndRecords ==
    bpc \in {"running", "done"} =>
        /\ attempted = SubSeq(job.paper_ids, 1, Len(attempted))
        /\ \A i \in 1..Len(attempted) :
              faults[i] # "ok" => attempted[i] \in RecordedFailures
        /\ bpc = "done" =>
              /\ attempted = job.paper_ids
              /\ stats.processed + stats.failed = Len(job.paper_ids)

\* ------------------------------------------------------------------------
\* Concurrent search properties
\* ------------------------------------------------------------------------
\* what HybridRetriever.search returns to a caller that runs alone on the
\* retriever, given its arguments and what the index and the reranker
\* answered it
SoloResult(call) ==
    LET found == Found(call.rotation) IN
    IF UseReranker(call.use_reranker)
    THEN IF found = <<>> THEN <<>>
         ELSE IF call.answer.kind = "ok"
         THEN RerankedResults(found, call.answer.items, call.answer.scored)
         ELSE Take(found, call.top_k)
    ELSE Take(found, call.top_k)

PositionsOf(w) == {i \in 0..(Len(all_pdfs) - 1) : i % total_workers = w}

\* C21: worker w gets exactly the PDFs at the positions i with
\* i mod W = w, in list order; once all W workers have their slice every PDF
\* is in exactly one slice, slice sizes differ by at most one, and a worker
\* whose id is >= the number of PDFs has the empty list.
C21_ModuloDistribution ==
    /\ \A w \in DOMAIN slices :
          /\ Len(slices[w]) = Cardinality(PositionsOf(w))
          /\ \A k \in 1..Len(slices[w]) :
                slices[w][k] = all_pdfs[w + (k - 1) * total_workers + 1]
          /\ w >= Len(all_pdfs) => slices[w] = <<>>
    /\ (total_workers > 0 /\ DOMAIN slices = 0..(total_workers - 1)) =>
          /\ \A i \in 1..Len(all_pdfs) :
                Cardinality({wk \in {<<w, k>> : w \in DOMAIN slices, k \in 1..MaxPdfs + 1} :
                                /\ wk[2] <= Len(slices[wk[1]])
                                /\ slices[wk[1]][wk[2]] = all_pdfs[i]}) = 1
          /\ \A v, w \in DOMAIN slices :
                Len(slices[v]) - Len(slices[w]) <= 1

C21_Witness ==
    /\ Len(all_pdfs) = 7
    /\ total_workers = 3
    /\ DOMAIN slices = 0..2
    /\ slices[0] = <<1, 4, 7>>
    /\ slices[1] = <<2, 5>>
    /\ slices[2] = <<3, 6>>

\* ------------------------------------------------------------------------
\* S3 listing properties
\* ------------------------------------------------------------------------
RECURSIVE CountIn(_, _)
CountIn(key, keys) ==
    IF keys = <<>> THEN 0
    ELSE (IF Head(keys) = key THEN 1 ELSE 0) + CountIn(key, Tail(keys))

RECURSIVE CountInPages(_, _)
CountInPages(key, pages) ==
    IF pages = <<>> THEN 0
    ELSE CountIn(key, Head(pages)) + CountInPages(key, Tail(pages))

\* C22: list_pdfs_from_s3 requests page after page, the first without a
\* token and each later one with the token of the response before it, until
\* a response is not truncated; it then returns the keys of all pages in
\* sorted order, each as often as the pages list it.
C22_ListingFollowsAllPages ==
    /\ \A r \in 1..Len(requests) : requests[r] = r - 1
    /\ Len(requests) <= Len(listing)
    /\ lpc = "listing" => Len(requests) < Len(listing)
    /\ lpc = "done" =>
          /\ Len(requests) = Len(listing)
          /\ \A k \in 1..(Len(listed) - 1) : listed[k] <= listed[k + 1]
          /\ \A key \in ObjectKeys : CountIn(key, listed) = CountInPages(key, listing)

C22_Witness ==
    /\ lpc = "done"
    /\ Len(listing) = 3
    /\ listing[1] = <<2, 1>>
    /\ listing[2] = <<>>
    /\ listing[3] = <<2>>
    /\ listed = <<1, 2, 2>>

\* ------------------------------------------------------------------------
\* Distributed worker properties
\* ------------------------------------------------------------------------
\* C23: s3_object_exists answers True exactly when head_object succeeded,
\* False exactly when it failed with a ClientError of code 404, and raises on
\* every other error; a raised error ends the worker without the PDF being
\* taken as missing (nothing is downloaded, uploaded or counted for it).
C23_ExistsAnswers ==
    /\ \A i \in 1..Len(probes) :
          /\ probes[i].answer = "True" <=> probes[i].outcome = "ok"
          /\ probes[i].answer = "False" <=> probes[i].outcome = "404"
          /\ probes[i].answer = "raised" <=> probes[i].outcome \notin {"ok", "404"}
          /\ probes[i].answer = "raised" =>
                /\ i = Len(probes)
                /\ wpc = "exited"
                /\ successful + failed = i - 1

C23_Witness ==
    /\ Len(probes) = 2
    /\ probes[1] = [outcome |-> "ok", answer |-> "True"]
    /\ probes[2] = [outcome |-> "403", answer |-> "raised"]
    /\ skipped = {1}
    /\ completed = {1}
    /\ exitStatus = 1

\* C24: when run has ended, every PDF of the slice was attempted exactly once
\* in list order, successful + failed is the slice size, self.failures has one
\* record per failed PDF, the failure report is in S3 exactly when some PDF
\* failed, and the exit status is non-zero exactly when failed > 0.
C24_RunAttemptsAllAndReports ==
    wpc = "exited" =>
        /\ attempts = my_pdfs
        /\ successful + failed = Len(my_pdfs)
        /\ Len(failures) = failed
        /\ reportUploaded <=> failed > 0
        /\ exitStatus # 0 <=> failed > 0

\* C27: a PDF that process_pdf skipped as already processed was processed to
\* the end by an earlier process_pdf (all its outputs were uploaded).
C27_SkippedWasCompleted ==
    \A pdf_key \in skipped : pdf_key \in completed

\* ------------------------------------------------------------------------
\* Embedder properties
\* ------------------------------------------------------------------------
\* C25: one generate_embedding call makes at most max_retries attempts,
\* returns the embedding of its first successful attempt, and fails only
\* after max_retries failed attempts.
C25_AtMostMaxRetriesAttempts ==
    /\ tries <= max_retries
    /\ \A c \in 1..Len(embedResults) :
          /\ embedResults[c].attempts <= max_retries
          /\ embedResults[c].outcome = "returned" =>
                embedResults[c].embedding = embedResults[c].attempts
          /\ embedResults[c].outcome = "failed" =>
                embedResults[c].attempts = max_retries

\* ------------------------------------------------------------------------
\* Chat endpoint properties
\* ------------------------------------------------------------------------
\* at most two completion attempts; the first names the requested model; a
\* second one follows only a failed first one, names the default model, and
\* is made only when the requested model is another one
CompletionAttemptsInOrder ==
    /\ Len(completions) <= 2
    /\ Len(completions) >= 1 => completions[1].model = chatReq.model
    /\ Len(completions) = 2 =>
          /\ ~completions[1].ok
          /\ completions[2].model = DEFAULT_MODEL
          /\ chatReq.model # DEFAULT_MODEL

AllCompletionsFailed ==
    /\ completions # <<>>
    /\ \A i \in 1..Len(completions) : ~completions[i].ok

\* C26 as stated, for every /chat request: retrieval runs exactly once, the
\* completion attempts are as above, the response is 503 exactly when every
\* attempted completion failed, and nothing is attempted after an empty
\* retrieval.
C26_EveryChatRequest ==
    /\ searchRuns <= 1
    /\ CompletionAttemptsInOrder
    /\ searchOutcome = 0 => completions = <<>>
    /\ chpc = "done" =>
          /\ searchRuns = 1
          /\ chatStatus = "503" <=> AllCompletionsFailed

\* C26, amended: the same for every /chat request that passes the checks at
\* the head of the handler (retriever loaded, API key set, message not blank,
\* model available); a request that fails one of them is answered 503 or 400
\* with no retrieval and no completion.
C26_AcceptedChatRequest ==
    /\ searchRuns <= 1
    /\ CompletionAttemptsInOrder
    /\ searchOutcome = 0 => (completions = <<>> /\ chatStatus = "200")
    /\ (chpc = "done" /\ ChatRejection(chatReq) = "none") =>
          /\ searchRuns = 1
          /\ chatStatus = "503" <=> AllCompletionsFailed
    /\ (chpc = "done" /\ ChatRejection(chatReq) # "none") =>
          /\ searchRuns = 0
          /\ completions = <<>>
          /\ chatStatus = ChatRejection(chatReq)

C26_Witness ==
    /\ chpc = "done"
    /\ ChatRejection(chatReq) = "none"
    /\ searchRuns = 1
    /\ Len(completions) = 2
    /\ completions[1] = [model |-> "openai/gpt-5o", ok |-> FALSE]
    /\ completions[2] = [model |-> DEFAULT_MODEL, ok |-> FALSE]
    /\ chatStatus = "503"

\* ------------------------------------------------------------------------
\* Batch pipeline properties
\* ------------------------------------------------------------------------
AllStagesDone ==
    /\ ddone /\ pdone /\ udone
    /\ download_queue = <<>>
    /\ process_queue = <<>>

\* how many times doc_id ended as uploaded or in the failed list
Endings(doc_id) == CountIn(doc_id, uploaded) + CountIn(doc_id, pfailed)

\* the marker is the last thing a stage puts, after all of its items
MarkersLast ==
    /\ \A i \in 1..Len(download_queue) :
          download_queue[i] = None => (i = Len(download_queue) /\ ddone)
    /\ \A i \in 1..Len(process_queue) :
          process_queue[i] = NoneItem => (i = Len(process_queue) /\ pdone)
    /\ ddone => (dpos > Len(unprocessed) /\ dhold = NoItem)
    /\ pdone => (ddone /\ download_queue = <<>> /\ phold = NoParsed)
    /\ udone => (pdone /\ process_queue = <<>>)

\* C28: for every list of PDFs and every pattern of download, parse and
\* upload failures the three stages terminate: the marker is forwarded only
\* after a stage's last item, the queues never hold more than two items, some
\* stage can always take a step until all have returned, every PDF ends at
\* most once, and in the end exactly once, as uploaded or failed.
C28_PipelineTerminates ==
    /\ [](/\ MarkersLast
          /\ Len(download_queue) <= QueueSize
          /\ Len(process_queue) <= QueueSize
          /\ ~AllStagesDone => ENABLED PipeNext
          /\ \A i \in 1..Len(unprocessed) : Endings(unprocessed[i]) <= 1
          /\ AllStagesDone => \A i \in 1..Len(unprocessed) : Endings(unprocessed[i]) = 1)
    /\ <>[]AllStagesDone

C28_Witness ==
    /\ AllStagesDone
    /\ unprocessed = <<1, 2, 3>>
    /\ pfailed = <<1, 2>>
    /\ uploaded = <<3>>

\* C29: every document reported as uploaded has its document.md in S3 and
\* only its own figures under processed/{doc_id}/figures/, and the output
\* files of a parsed document stay in /tmp/output until the uploader takes it.
C29_UploadedHasOwnOutput ==
    /\ \A i \in 1..Len(uploaded) :
          /\ uploaded[i] \in storedMd
          /\ \A f \in storedFigs : f[1] = uploaded[i] => f[2] = uploaded[i]
    /\ \A i \in 1..Len(process_queue) :
          (process_queue[i] # NoneItem /\ ~process_queue[i].error) =>
              process_queue[i].doc \in outputDir
    /\ (phold # NoParsed /\ phold # NoneItem /\ ~phold.error) => phold.doc \in outputDir

\* ------------------------------------------------------------------------
\* Retriever properties
\* ------------------------------------------------------------------------
InHybridSearch == hybridSearchCalls > 0
Finished == pc \in {"done", "error"}
NoCapabilityCalled == embedAttempts = 0 /\ indexQueries = 0 /\ rerankCalls = 0
RerankFailed == rerankOutcome \in {"transport_error", "http_error", "bad_body"}

C2_RerankFailureDegrades ==
    (InHybridSearch /\ rerankCalls > 0 /\ RerankFailed) =>
        /\ pc = "done"
        /\ error = "none"
        /\ results = Take(candidates, top_k)

\* C3 as stated: a search call ends in ERROR only when query validation, the
\* embedding or the vector-index call failed (the reranker was then never
\* called and nothing is returned), and a reranking failure always leads to
\* DONE, never to ERROR.
C3_ErrorOnlyBeforeReranking ==
    InHybridSearch =>
        /\ (pc = "error" =>
                /\ error \in {"validation", "embedding", "vector_index"}
                /\ rerankCalls = 0
                /\ results = <<>>)
        /\ (RerankFailed => pc = "done")

\* C4: every HybridRetriever.search issues exactly one vector-index query
\* (one FAISSRetriever.search, hence at most one index.search) and asks for
\* exactly faiss_candidates results, whatever top_k and use_reranker are.
C4_OneIndexQueryOfCandidateCount ==
    InHybridSearch =>
        /\ hybridSearchCalls = 1
        /\ faissSearchCalls = 1
        /\ faissAskedN = faiss_candidates
        /\ indexQueries <= 1
        /\ (indexQueries = 1 => indexAskedN = faiss_candidates)
        /\ (pc \in {"reranking", "done"} => indexQueries = 1)

C4_Witness ==
    /\ pc = "done"
    /\ faiss_candidates = DefaultFaissCandidates
    /\ top_k = 2
    /\ indexQueries = 1
    /\ indexAskedN = DefaultFaissCandidates
    /\ Len(candidates) = MaxIndex

C6_NoRerankerPath ==
    (InHybridSearch /\ ~(use_reranker /\ reranker)) =>
        /\ rerankCalls = 0
        /\ pc # "reranking"
        /\ (pc = "error" => error \in {"embedding", "vector_index"})
        /\ (pc = "done" =>
                /\ Len(results) = Min(top_k, Len(candidates))
                /\ \A i \in 1..Len(results) : results[i] = candidates[i])

C6_Witness ==
    /\ pc = "done"
    /\ use_reranker
    /\ ~reranker
    /\ Len(candidates) = 3
    /\ top_k = 2
    /\ Len(results) = 2

====
